---- MODULE Spec2Model ----
(***************************************************************************)
(* Caption extraction for scanned photo-album pages                        *)
(* (ocr_scripts/ocr_pages.py and the search-index scripts).                *)
(*                                                                         *)
(* Text is a sequence of characters; a character is a one-character        *)
(* string.  The character classes below are Python's str predicates        *)
(* (isalpha, isalnum, isspace, isupper) and the classes of the re module,  *)
(* restricted to the alphabet the model draws its inputs from.  Fractions  *)
(* such as 0.25 are compared exactly, by cross-multiplication: with the    *)
(* small integer operands of the program the correctly rounded float       *)
(* quotient compares with the literal exactly as the rational does.        *)
(***************************************************************************)
EXTENDS Integers, Sequences, FiniteSets, TLC

VARIABLES
    pc,       \* position of the operation being run
    text,     \* argument of the text function being applied
    result,   \* its return value (<<>> until it returns)
    lines,    \* filter_text_lines: the stripped lines of the text
    kept,     \* filter_text_lines: the lines kept so far
    page,     \* find_candidate_boxes: width and height of the thresholded page
    stats,    \* rows <<x, y, bw, bh, area>> of connectedComponentsWithStats
    boxes,    \* padded rectangles <<x, y, w, h>>, sorted once all are collected
    merged,   \* rectangles kept by the IoU suppression
    idx,      \* loop index of the running for-loop
    is_tall,  \* region loop: the region is tall in both dimensions
    calls,    \* region loop: indexes of the regions the recognizer was called on
    outcome,  \* region loop: how the last examined region ended
    blocks,   \* region loop: the blocks of the page so far
    captions, \* page record: the texts of the blocks
    album_dirs,         \* batch: the album directories, sorted by name
    llm_client,         \* batch: the LM Studio client was initialized
    album_i,            \* batch: index of the album loop
    metadata,           \* batch: the metadata of the album being processed
    album_records,      \* batch: the page records of the album so far
    all_search_entries, \* the entries of the search index collected so far
    artifacts,          \* the ocr_captions.json of each album directory
    search_index        \* the search index file

----------------------------------------------------------------------------
(* Characters                                                              *)

AsciiUpper == {"A","B","C","D","E","F","G","H","I","J","K","L","M",
               "N","O","P","Q","R","S","T","U","V","W","X","Y","Z"}
AsciiLower == {"a","b","c","d","e","f","g","h","i","j","k","l","m",
               "n","o","p","q","r","s","t","u","v","w","x","y","z"}
UpperSeq == <<"A","B","C","D","E","F","G","H","I","J","K","L","M",
              "N","O","P","Q","R","S","T","U","V","W","X","Y","Z">>
LowerSeq == <<"a","b","c","d","e","f","g","h","i","j","k","l","m",
              "n","o","p","q","r","s","t","u","v","w","x","y","z">>
\* [a-zA-Z] of the regular expressions
AsciiLetter == AsciiUpper \cup AsciiLower
\* a letter outside [A-Za-z]: str.isalpha() holds, the ASCII classes do not
OtherLetter == {"é"}
Digit == {"0","1","2","3","4","5","6","7","8","9"}
\* [ \t] of clean_text
Blank == {" ", "\t"}
\* str.isspace(), str.strip() and \s
Whitespace == {" ", "\t", "\n", "\r", "\f"}
\* line boundaries of str.splitlines()
LineBreak == {"\n", "\r", "\f"}

isalpha(ch) == ch \in AsciiLetter \cup OtherLetter
isalnum(ch) == isalpha(ch) \/ ch \in Digit
isspace(ch) == ch \in Whitespace
isupper(ch) == ch \in AsciiUpper
\* \w of the re module on str patterns: alphanumerics and the underscore
IsWordChar(ch) == isalnum(ch) \/ ch = "_"

\* str.lower() on one character
LowerChar(ch) ==
    IF ch \in AsciiUpper
    THEN LowerSeq[CHOOSE i \in 1..Len(UpperSeq) : UpperSeq[i] = ch]
    ELSE ch

\* str.lower()
lower(s) == [i \in 1..Len(s) |-> LowerChar(s[i])]

----------------------------------------------------------------------------
(* String helpers (non-recursive or logarithmic in depth, so that long     *)
(* texts can be evaluated)                                                 *)

Range(f) == {f[i] : i \in DOMAIN f}
Reverse(sq) == [i \in 1..Len(sq) |-> sq[Len(sq) + 1 - i]]

\* max(a, b) and min(a, b)
Max(a, b) == IF a >= b THEN a ELSE b
Min(a, b) == IF a <= b THEN a ELSE b

\* the characters of s at the positions lo..hi where mask holds, in order
RECURSIVE SelectRange(_, _, _, _)
SelectRange(s, mask, lo, hi) ==
    IF lo > hi THEN <<>>
    ELSE IF lo = hi THEN (IF mask[lo] THEN <<s[lo]>> ELSE <<>>)
    ELSE LET mid == (lo + hi) \div 2
         IN  SelectRange(s, mask, lo, mid) \o SelectRange(s, mask, mid + 1, hi)

SelectByMask(s, mask) == SelectRange(s, mask, 1, Len(s))

\* str.replace(old, new) for single characters
ReplaceChar(s, old, new) == [i \in 1..Len(s) |-> IF s[i] = old THEN new ELSE s[i]]

\* str.strip(): drop leading and trailing whitespace
strip(s) ==
    LET inked == {i \in 1..Len(s) : ~isspace(s[i])}
    IN  IF inked = {} THEN <<>>
        ELSE LET a == CHOOSE i \in inked : \A j \in 1..(i-1) : isspace(s[j])
                 b == CHOOSE i \in inked : \A j \in (i+1)..Len(s) : isspace(s[j])
             IN  SubSeq(s, a, b)

\* str.rstrip()
rstrip(s) ==
    LET inked == {i \in 1..Len(s) : ~isspace(s[i])}
    IN  IF inked = {} THEN <<>>
        ELSE SubSeq(s, 1, CHOOSE i \in inked : \A j \in (i+1)..Len(s) : isspace(s[j]))

----------------------------------------------------------------------------
(* clean_text                                                              *)

\* re.sub(r"[ \t]+", " ", s): every maximal run of blanks becomes one space
CollapseBlanks(s) ==
    LET mask == [i \in 1..Len(s) |-> ~(s[i] \in Blank /\ i > 1 /\ s[i-1] \in Blank)]
        one  == [i \in 1..Len(s) |-> IF s[i] \in Blank THEN " " ELSE s[i]]
    IN  SelectByMask(one, mask)

\* re.sub(r"\n[ \t]+", "\n", s): the blanks that directly follow a newline go
DropBlanksAfterNewline(s) ==
    LET afterNl(i) == /\ s[i] \in Blank
                      /\ \E k \in 1..(i-1) :
                             /\ s[k] = "\n"
                             /\ \A j \in (k+1)..i : s[j] \in Blank
        mask == [i \in 1..Len(s) |-> ~afterNl(i)]
    IN  SelectByMask(s, mask)

\* re.sub(r"\n{3,}", "\n\n", s): a run of three or more newlines becomes two
CollapseNewlines(s) ==
    LET mask == [i \in 1..Len(s) |->
                    ~(i > 2 /\ s[i] = "\n" /\ s[i-1] = "\n" /\ s[i-2] = "\n")]
    IN  SelectByMask(s, mask)

\* clean_text with the carriage returns converted after the newline rules ran
clean_text_late_cr(s) ==
    LET s1 == ReplaceChar(s, "\f", " ")
        s3 == CollapseBlanks(s1)
        s4 == DropBlanksAfterNewline(s3)
        s5 == CollapseNewlines(s4)
        s2 == ReplaceChar(s5, "\r", "\n")
    IN  strip(s2)

clean_text(s) ==
    LET s1 == ReplaceChar(s, "\f", " ")
        s2 == ReplaceChar(s1, "\r", "\n")
        s3 == CollapseBlanks(s2)
        s4 == DropBlanksAfterNewline(s3)
        s5 == CollapseNewlines(s4)
    IN  strip(s5)

----------------------------------------------------------------------------
(* detect_llm_duplication                                                  *)

\* the elements of a finite set of integers, ascending
RECURSIVE SortedBetween(_, _, _)
SortedBetween(S, lo, hi) ==
    IF S = {} THEN <<>>
    ELSE IF lo = hi THEN <<lo>>
    ELSE LET mid == (lo + hi) \div 2
         IN  SortedBetween({i \in S : i <= mid}, lo, mid)
                 \o SortedBetween({i \in S : i > mid}, mid + 1, hi)
SortedSeq(S) ==
    IF S = {} THEN <<>>
    ELSE SortedBetween(S, CHOOSE i \in S : \A j \in S : i <= j,
                          CHOOSE i \in S : \A j \in S : j <= i)

\* "".join(parts)
RECURSIVE JoinFrom(_, _)
JoinFrom(parts, i) == IF i > Len(parts) THEN <<>> ELSE parts[i] \o JoinFrom(parts, i + 1)
Concat(parts) == JoinFrom(parts, 1)

SentenceEnd == {".", "!", "?"}

\* where the matches of ([.!?]\s+) start: a sentence mark followed by whitespace
DelimiterStarts(s) ==
    {i \in 1..(Len(s) - 1) : s[i] \in SentenceEnd /\ isspace(s[i+1])}

\* last position of the match that starts at i: the whitespace run is taken whole
DelimiterEnd(s, i) ==
    CHOOSE e \in (i+1)..Len(s) :
        /\ \A j \in (i+1)..e : isspace(s[j])
        /\ (e = Len(s) \/ ~isspace(s[e+1]))

\* re.split(r'([.!?]\s+)', text) regrouped as the loop reads it: a sentence and
\* the delimiter that follows it ("" after the last sentence)
SplitSentences(s) ==
    LET st == SortedSeq(DelimiterStarts(s))
        n  == Len(st)
        from(k) == IF k = 1 THEN 1 ELSE DelimiterEnd(s, st[k-1]) + 1
    IN  [k \in 1..(n + 1) |->
            IF k <= n
            THEN [sentence  |-> SubSeq(s, from(k), st[k] - 1),
                  delimiter |-> SubSeq(s, st[k], DelimiterEnd(s, st[k]))]
            ELSE [sentence  |-> SubSeq(s, from(k), Len(s)),
                  delimiter |-> <<>>]]

\* set(re.findall(r'\b[a-zA-Z]{4,}\b', s.lower())): the maximal runs of word
\* characters that are ASCII letters only and at least 4 long
WordSet4(s) ==
    LET t == lower(s)
        starts == {i \in 1..Len(t) :
                      IsWordChar(t[i]) /\ (i = 1 \/ ~IsWordChar(t[i-1]))}
        stop(i) == CHOOSE j \in i..Len(t) :
                      /\ \A k \in i..j : IsWordChar(t[k])
                      /\ (j = Len(t) \/ ~IsWordChar(t[j+1]))
        runs == {SubSeq(t, i, stop(i)) : i \in starts}
    IN  {w \in runs : Len(w) >= 4 /\ \A k \in 1..Len(w) : w[k] \in AsciiLetter}

\* the overlap measured against the smaller word set
LooksDuplicated_min(sentence, prev_sent) ==
    LET words_curr == WordSet4(sentence)
        words_prev == WordSet4(prev_sent)
    IN  /\ words_curr # {} /\ words_prev # {}
        /\ 10 * Cardinality(words_curr \cap words_prev)
              > 5 * Min(Cardinality(words_curr), Cardinality(words_prev))

\* words_curr and words_prev and overlap > 0.5,
\* overlap = len(curr & prev) / max(len(curr), len(prev))
LooksDuplicated(sentence, prev_sent) ==
    LET words_curr == WordSet4(sentence)
        words_prev == WordSet4(prev_sent)
    IN  /\ words_curr # {} /\ words_prev # {}
        /\ 10 * Cardinality(words_curr \cap words_prev)
              > 5 * Max(Cardinality(words_curr), Cardinality(words_prev))

\* the loop over the sentences, reconstructed holding the accepted ones
RECURSIVE DuplicationLoop(_, _, _)
DuplicationLoop(pieces, k, reconstructed) ==
    IF k > Len(pieces) THEN strip(Concat(reconstructed))
    ELSE IF \E prev_idx \in 1..Len(reconstructed) :
                LooksDuplicated(pieces[k].sentence, reconstructed[prev_idx])
         THEN strip(Concat(reconstructed))
         ELSE DuplicationLoop(pieces, k + 1,
                  Append(reconstructed, pieces[k].sentence \o pieces[k].delimiter))

detect_llm_duplication(s) ==
    IF DelimiterStarts(s) = {} THEN s    \* len(sentences) < 3: return text
    ELSE DuplicationLoop(SplitSentences(s), 1, <<>>)

----------------------------------------------------------------------------
(* has_excessive_repetition and filter_text_lines                          *)

\* str.splitlines(): the lines between line boundaries, "\r\n" being one
\* boundary, and no empty last line after a final boundary
splitlines(s) ==
    LET starts == {i \in 1..Len(s) :
                      s[i] \in LineBreak /\ ~(s[i] = "\n" /\ i > 1 /\ s[i-1] = "\r")}
        st == SortedSeq(starts)
        n  == Len(st)
        stop(i) == IF s[i] = "\r" /\ i < Len(s) /\ s[i+1] = "\n" THEN i + 1 ELSE i
        from(k) == IF k = 1 THEN 1 ELSE stop(st[k-1]) + 1
        last == SubSeq(s, from(n + 1), Len(s))
        body == [k \in 1..n |-> SubSeq(s, from(k), st[k] - 1)]
    IN  IF last = <<>> THEN body ELSE Append(body, last)

\* "\n".join(parts)
RECURSIVE JoinLinesFrom(_, _)
JoinLinesFrom(parts, i) ==
    IF i > Len(parts) THEN <<>>
    ELSE IF i = Len(parts) THEN parts[i]
    ELSE parts[i] \o <<"\n">> \o JoinLinesFrom(parts, i + 1)
JoinLines(parts) == JoinLinesFrom(parts, 1)

\* str.split(): the maximal runs of non-whitespace characters, in order
split(s) ==
    LET starts == {i \in 1..Len(s) : ~isspace(s[i]) /\ (i = 1 \/ isspace(s[i-1]))}
        st == SortedSeq(starts)
        stop(i) == CHOOSE j \in i..Len(s) :
                      /\ (j = Len(s) \/ isspace(s[j+1]))
                      /\ \A k \in i..j : ~isspace(s[k])
    IN  [k \in 1..Len(st) |-> SubSeq(s, st[k], stop(st[k]))]

\* number of matches of ([a-zA-Z])\1{n-1,}: the maximal runs of one repeated
\* ASCII letter that are at least n long
RepeatedLetterRuns(s, n) ==
    {i \in 1..(Len(s) - n + 1) :
        /\ s[i] \in AsciiLetter
        /\ (i = 1 \/ s[i-1] # s[i])
        /\ \A k \in i..(i + n - 1) : s[k] = s[i]}

\* the long-run pattern written one repetition too long
has_excessive_repetition_long8(s) ==
    \/ Cardinality(RepeatedLetterRuns(s, 4)) >= 3
    \/ RepeatedLetterRuns(s, 8) # {}

has_excessive_repetition(s) ==
    \/ Cardinality(RepeatedLetterRuns(s, 4)) >= 3
    \/ RepeatedLetterRuns(s, 7) # {}

\* sum(ch.isalpha() ...), sum(ch.isalnum() ...) and the symbol count
CountAlpha(s) == Cardinality({i \in 1..Len(s) : isalpha(s[i])})
CountAlnum(s) == Cardinality({i \in 1..Len(s) : isalnum(s[i])})
CountSym(s) == Cardinality({i \in 1..Len(s) : ~isalnum(s[i]) /\ ~isspace(s[i])})

\* len(re.findall(r"[A-Za-z]{n,}", s)) for the matches at least n long: the
\* maximal runs of ASCII letters of length >= n
CountWords(s, n) ==
    Cardinality({i \in 1..(Len(s) - n + 1) :
        /\ s[i] \in AsciiLetter
        /\ (i = 1 \/ s[i-1] \notin AsciiLetter)
        /\ \A k \in i..(i + n - 1) : s[k] \in AsciiLetter})

\* the ladder without its symbol rule
LadderRejects_no_sym(ln) ==
    LET total == Len(ln)
        alpha == CountAlpha(ln)
    IN  \/ alpha < 4
        \/ 100 * alpha < 25 * Max(1, total)

\* the ladder asking for three letters only
LadderRejects_three_letters(ln) ==
    LET total == Len(ln)
        alpha == CountAlpha(ln)
        sym   == CountSym(ln)
    IN  \/ alpha < 3
        \/ 100 * alpha < 25 * Max(1, total)
        \/ 100 * sym > 35 * Max(1, total)

\* the rejection ladder of a line: too few letters, too few letters for its
\* length, too many symbols
LadderRejects(ln) ==
    LET total == Len(ln)
        alpha == CountAlpha(ln)
        sym   == CountSym(ln)
    IN  \/ alpha < 4
        \/ 100 * alpha < 25 * Max(1, total)
        \/ 100 * sym > 35 * Max(1, total)

\* strict_ok
StrictOk(ln) == CountWords(ln, 4) >= 2 \/ CountWords(ln, 3) >= 3

\* is_valid_short with the length bounds exclusive
IsValidShort_exclusive(ln) ==
    LET total == Len(ln)
    IN  /\ CountWords(ln, 3) >= 1 /\ total > 8 /\ total < 50
        /\ \E i \in 1..total : isupper(ln[i])
        /\ 100 * CountSym(ln) < 20 * Max(1, total)

\* is_valid_short
IsValidShort(ln) ==
    LET total == Len(ln)
    IN  /\ CountWords(ln, 3) >= 1 /\ total >= 8 /\ total <= 50
        /\ \E i \in 1..total : isupper(ln[i])
        /\ 100 * CountSym(ln) < 20 * Max(1, total)

PrepositionCues == {<<"n", "e", "a", "r">>, <<"f", "r", "o", "m">>, <<"i", "n">>, <<"a", "t">>, <<"t", "o">>, <<"o", "f">>, <<"b", "y">>, <<"w", "i", "t", "h">>}

\* str.endswith("...")
EndsWithEllipsis(s) ==
    Len(s) >= 3 /\ s[Len(s)] = "." /\ s[Len(s) - 1] = "." /\ s[Len(s) - 2] = "."

\* the continuation rule without the capitalised-start recovery
ContinuationOk_no_cap(ln, kept_list) ==
    /\ kept_list # <<>>
    /\ LET prev == rstrip(kept_list[Len(kept_list)])
           prev_terminal == prev = <<>> \/ prev[Len(prev)] \in SentenceEnd
           total == Len(ln)
           is_short_continuation ==
               /\ CountWords(ln, 3) <= 2 /\ total <= 24
               /\ 100 * CountAlpha(ln) >= 50 * Max(1, total)
           toks == split(lower(prev))
           looks_like_intro ==
               \E k \in 1..Len(toks) : k > Len(toks) - 4 /\ toks[k] \in PrepositionCues
       IN  /\ is_short_continuation
           /\ \/ ~prev_terminal
              \/ looks_like_intro
              \/ EndsWithEllipsis(prev)

\* the continuation rule: ln against the last kept line
ContinuationOk(ln, kept_list) ==
    /\ kept_list # <<>>
    /\ LET prev == rstrip(kept_list[Len(kept_list)])
           prev_terminal == prev = <<>> \/ prev[Len(prev)] \in SentenceEnd
           total == Len(ln)
           is_short_continuation ==
               /\ CountWords(ln, 3) <= 2 /\ total <= 24
               /\ 100 * CountAlpha(ln) >= 50 * Max(1, total)
           toks == split(lower(prev))
           looks_like_intro ==
               \E k \in 1..Len(toks) : k > Len(toks) - 4 /\ toks[k] \in PrepositionCues
           starts_cap == Len(ln) >= 1 /\ isupper(ln[1])
       IN  /\ is_short_continuation
           /\ \/ ~prev_terminal
              \/ looks_like_intro
              \/ EndsWithEllipsis(prev)
              \/ starts_cap

\* the body of "for ln in lines": TRUE when ln is appended to kept
KeepsLine(ln, kept_list) ==
    /\ ln # <<>>
    /\ ~has_excessive_repetition(ln)
    /\ ~LadderRejects(ln)
    /\ CountWords(ln, 3) >= 1
    /\ \/ StrictOk(ln) \/ IsValidShort(ln)
       \/ ContinuationOk(ln, kept_list)

FilterStep(kept_list, ln) == IF KeepsLine(ln, kept_list) THEN Append(kept_list, ln) ELSE kept_list

\* lines = [ln.strip() for ln in text.splitlines()] after the duplication check
StrippedLines(s) ==
    LET raw_lines == splitlines(detect_llm_duplication(s))
    IN  [k \in 1..Len(raw_lines) |-> strip(raw_lines[k])]

RECURSIVE FilterLoop(_, _, _)
FilterLoop(lns, i, kept_list) ==
    IF i > Len(lns) THEN kept_list ELSE FilterLoop(lns, i + 1, FilterStep(kept_list, lns[i]))

filter_text_lines(s) == strip(JoinLines(FilterLoop(StrippedLines(s), 1, <<>>)))

----------------------------------------------------------------------------
(* find_candidate_boxes: Region Detector and Overlap Resolver              *)

\* MIN_BOX_AREA_FRAC = 0.0008 and MAX_BOX_AREA_FRAC = 0.35, in ten-thousandths
MIN_BOX_AREA_FRAC_E4 == 8
MAX_BOX_AREA_FRAC_E4 == 3500
\* MIN_ASPECT = 1.15, in hundredths
MIN_ASPECT_E2 == 115

\* area_frac < MIN_BOX_AREA_FRAC or area_frac > MAX_BOX_AREA_FRAC
AreaFracRejected(pg, comp) ==
    LET page_area == pg.h * pg.w
        area      == comp[5]
    IN  \/ 10000 * area < MIN_BOX_AREA_FRAC_E4 * page_area
        \/ 10000 * area > MAX_BOX_AREA_FRAC_E4 * page_area

\* the aspect test with <= for <
AspectRejected_inclusive(comp) == 100 * comp[3] <= MIN_ASPECT_E2 * Max(1, comp[4])

\* aspect < MIN_ASPECT, aspect = bw / max(1, bh)
AspectRejected(comp) == 100 * comp[3] < MIN_ASPECT_E2 * Max(1, comp[4])

\* the box grown by pad and not clamped
PadBox_unclamped(pg, comp) ==
    LET pad == Min(pg.w, pg.h) \div 100
    IN  <<comp[1] - pad, comp[2] - pad, comp[3] + 2 * pad, comp[4] + 2 * pad>>

\* pad = int(0.01 * min(w, h)); the box grown by pad and clamped to the page
PadBox(pg, comp) ==
    LET x == comp[1]  y == comp[2]  bw == comp[3]  bh == comp[4]
        pad == Min(pg.w, pg.h) \div 100
        x0 == Max(0, x - pad)
        y0 == Max(0, y - pad)
        x1 == Min(pg.w, x + bw + pad)
        y1 == Min(pg.h, y + bh + pad)
    IN  <<x0, y0, x1 - x0, y1 - y0>>

\* boxes.sort(key=lambda b: (b[1], b[0])): stable, ascending (top, left)
KeyLess(a, b) == a[2] < b[2] \/ (a[2] = b[2] /\ a[1] < b[1])
SortByTopLeft(bs) ==
    LET rank(i) == 1 + Cardinality({j \in 1..Len(bs) :
                        \/ KeyLess(bs[j], bs[i])
                        \/ (~KeyLess(bs[i], bs[j]) /\ j < i)})
    IN  [p \in 1..Len(bs) |-> bs[CHOOSE i \in 1..Len(bs) : rank(i) = p]]

BoxArea(b) == b[3] * b[4]

\* inter of the suppression loop
Intersection(b, m) ==
    LET ix1 == Max(b[1], m[1])
        iy1 == Max(b[2], m[2])
        ix2 == Min(b[1] + b[3], m[1] + m[3])
        iy2 == Min(b[2] + b[4], m[2] + m[4])
    IN  Max(0, ix2 - ix1) * Max(0, iy2 - iy1)

\* inter != 0 and iou > 0.25, iou = inter / max(1, union)
IoUAbove(b, m) ==
    LET inter == Intersection(b, m)
        union == BoxArea(b) + BoxArea(m) - inter
    IN  inter # 0 /\ 100 * inter > 25 * Max(1, union)

\* the suppression step without the area comparison: the kept box always stays
SuppressStep_keep_first(mg, b) ==
    LET hits == {j \in 1..Len(mg) : IoUAbove(b, mg[j])}
    IN  IF hits = {} THEN Append(mg, b) ELSE mg

\* the suppression step with the last overlapping kept box for the first
SuppressStep_last_match(mg, b) ==
    LET hits == {j \in 1..Len(mg) : IoUAbove(b, mg[j])}
    IN  IF hits = {} THEN Append(mg, b)
        ELSE LET j == CHOOSE k \in hits : \A l \in hits : k >= l
             IN  IF BoxArea(b) > BoxArea(mg[j]) THEN [mg EXCEPT ![j] = b] ELSE mg

\* one iteration of "for b in boxes": b against the kept list, first match wins
SuppressStep(mg, b) ==
    LET hits == {j \in 1..Len(mg) : IoUAbove(b, mg[j])}
    IN  IF hits = {} THEN Append(mg, b)
        ELSE LET j == CHOOSE k \in hits : \A l \in hits : k <= l
             IN  IF BoxArea(b) > BoxArea(mg[j]) THEN [mg EXCEPT ![j] = b] ELSE mg

\* the whole suppression loop on a list of boxes
RECURSIVE IoUSuppressFrom(_, _, _)
IoUSuppressFrom(bs, i, mg) ==
    IF i > Len(bs) THEN mg ELSE IoUSuppressFrom(bs, i + 1, SuppressStep(mg, bs[i]))
IoUSuppress(bs) == IoUSuppressFrom(bs, 1, <<>>)

----------------------------------------------------------------------------
(* process_album: the region loop of one page (the legacy loop of main is   *)
(* the same code)                                                           *)

\* the area rule read with the detector's upper bound MAX_BOX_AREA_FRAC
AreaTooLarge_detector_bound(pg, b) ==
    10000 * (b[3] * b[4]) > MAX_BOX_AREA_FRAC_E4 * (pg.w * pg.h)

\* area_frac > 0.14, area_frac = (w * h) / float(iw * ih)
AreaTooLarge(pg, b) == 100 * (b[3] * b[4]) > 14 * (pg.w * pg.h)

\* is_tall = (h / float(ih)) > 0.22 and (w / float(iw)) > 0.40
IsTall(pg, b) == 100 * b[4] > 22 * pg.h /\ 100 * b[3] > 40 * pg.w

\* ocr_crop: whatever the recognizer read, through clean_text ("" stays "")
ocr_crop(raw) == clean_text(raw)

\* the valid short block with the punctuation limit of the line filter
IsValidShortBlock_line_limit(t) ==
    /\ Len(t) >= 8 /\ Len(t) <= 50 /\ CountWords(t, 3) >= 1
    /\ \E i \in 1..Len(t) : isupper(t[i])
    /\ 100 * CountSym(t) < 20 * Max(1, Len(t))

\* is_valid_short_block
IsValidShortBlock(t) ==
    /\ Len(t) >= 8 /\ Len(t) <= 50 /\ CountWords(t, 3) >= 1
    /\ \E i \in 1..Len(t) : isupper(t[i])
    /\ 100 * CountSym(t) < 25 * Max(1, Len(t))

\* not is_valid_short_block and len(block_words4) < 2 and len(block_words3) < 4
InsufficientWords(t) ==
    ~IsValidShortBlock(t) /\ CountWords(t, 4) < 2 /\ CountWords(t, 3) < 4

\* the tall rule on the letter count alone
TallSparse_letters_only(t) == CountAlpha(t) < 80

\* tall_alpha < 80 or (tall_alpha / tall_total) < 0.30
TallSparse(t) ==
    LET tall_alpha == CountAlpha(t)
        tall_total == Max(1, Len(t))
    IN  tall_alpha < 80 \/ 100 * tall_alpha < 30 * tall_total

\* long_words: the whitespace-separated words with 3 or more ASCII letters
CountLongWords(t) ==
    LET words == split(t)
    IN  Cardinality({k \in 1..Len(words) :
            Cardinality({i \in 1..Len(words[k]) : words[k][i] \in AsciiLetter}) >= 3})

\* (short_lines / len(lines)) > 0.60 over the non-blank stripped lines
TooManyShortLines(t) ==
    LET raw == splitlines(t)
        nonblank == {k \in 1..Len(raw) : strip(raw[k]) # <<>>}
        short == {k \in nonblank : Len(strip(raw[k])) <= 2}
    IN  nonblank # {} /\ 100 * Cardinality(short) > 60 * Cardinality(nonblank)

\* the block checks on the line-filtered text t, in the order of the loop body:
\* the reason of the first "continue" taken, or "accept"
BlockVerdict(t, tall) ==
    LET alpha == CountAlpha(t)
        alnum == CountAlnum(t)
        total == Max(1, Len(t))
    IN  IF t = <<>> THEN "no text after line filtering"
        ELSE IF InsufficientWords(t) THEN "insufficient words"
        ELSE IF tall /\ TallSparse(t) THEN "tall region with sparse text"
        ELSE IF Len(t) < 4 THEN "text too short"
        ELSE IF alpha < 4 THEN "too few letters"
        ELSE IF 100 * alpha < 12 * total THEN "low alpha ratio"
        ELSE IF 100 * alnum < 12 * total THEN "low alnum ratio"
        ELSE IF CountLongWords(t) < 1 /\ alpha >= 18 THEN "no long words"
        ELSE IF TooManyShortLines(t) THEN "too many short lines"
        ELSE "accept"

\* the block with the rectangle stored as (x, y, w, h)
Block_width_height(b, t) == [bbox |-> <<b[1], b[2], b[3], b[4]>>, text |-> t]

\* {"bbox": [x, y, x + w, y + h], "text": text}
Block(b, t) == [bbox |-> <<b[1], b[2], b[1] + b[3], b[2] + b[4]>>, text |-> t]

\* the blocks left in the order the regions were examined in
SortBlocks_unsorted(bl) == bl

\* blocks.sort(key=lambda b: (b["bbox"][1], b["bbox"][0])): stable
SortBlocks(bl) ==
    LET less(a, b) == \/ a.bbox[2] < b.bbox[2]
                      \/ (a.bbox[2] = b.bbox[2] /\ a.bbox[1] < b.bbox[1])
        rank(i) == 1 + Cardinality({j \in 1..Len(bl) :
                        \/ less(bl[j], bl[i])
                        \/ (~less(bl[i], bl[j]) /\ j < i)})
    IN  [p \in 1..Len(bl) |-> bl[CHOOSE i \in 1..Len(bl) : rank(i) = p]]

\* captions = [b["text"] for b in blocks]
Captions(bl) == [k \in 1..Len(bl) |-> bl[k].text]

\* clean_text("\n\n".join(b["text"] for b in blocks))
RECURSIVE JoinParagraphsFrom(_, _)
JoinParagraphsFrom(bl, i) ==
    IF i > Len(bl) THEN <<>>
    ELSE IF i = Len(bl) THEN bl[i].text
    ELSE bl[i].text \o <<"\n", "\n">> \o JoinParagraphsFrom(bl, i + 1)
full_text(bl) == clean_text(JoinParagraphsFrom(bl, 1))

----------------------------------------------------------------------------
(* File names and album slugs                                              *)

\* the characters of file and folder names, in ascending code point order; the
\* three curly apostrophes are written by their code points
CodePointOrder ==
    <<" ", "&", "'", "(", ")", "+", "-", ".",
      "0", "1", "2", "3", "4", "5", "6", "7", "8", "9",
      "A", "B", "C", "D", "E", "F", "G", "H", "I", "J", "K", "L", "M",
      "N", "O", "P", "Q", "R", "S", "T", "U", "V", "W", "X", "Y", "Z",
      "[", "]", "_",
      "a", "b", "c", "d", "e", "f", "g", "h", "i", "j", "k", "l", "m",
      "n", "o", "p", "q", "r", "s", "t", "u", "v", "w", "x", "y", "z",
      "{", "}", "é", "U+2018", "U+2019", "U+201B">>
Ord(ch) == CHOOSE i \in 1..Len(CodePointOrder) : CodePointOrder[i] = ch

\* a < b on str: lexicographic by code point
StrLess(a, b) ==
    \E k \in 1..(Min(Len(a), Len(b)) + 1) :
        /\ \A j \in 1..(k-1) : a[j] = b[j]
        /\ k <= Len(b)
        /\ k <= Len(a) => Ord(a[k]) < Ord(b[k])

\* sorted(..., key=filename) on records with a filename: stable
SortByFilename(rs) ==
    LET before(i) == {j \in 1..Len(rs) :
                        \/ StrLess(rs[j].filename, rs[i].filename)
                        \/ (rs[j].filename = rs[i].filename /\ j < i)}
    IN  [p \in 1..Len(rs) |->
            rs[CHOOSE i \in 1..Len(rs) : Cardinality(before(i)) = p - 1]]

\* Path.suffix: from the last dot of the name, when that dot is neither its
\* first nor its last character
suffix(name) ==
    LET dots == {i \in 2..(Len(name) - 1) : name[i] = "."}
    IN  IF dots = {} \/ name[Len(name)] = "." THEN <<>>
        ELSE SubSeq(name, CHOOSE i \in dots : \A j \in dots : j <= i, Len(name))

is_real_image_file(name) ==
    /\ ~(Len(name) >= 2 /\ name[1] = "." /\ name[2] = "_")
    /\ name \notin {<<".", "D", "S", "_", "S", "t", "o", "r", "e">>,
                    <<"T", "h", "u", "m", "b", "s", ".", "d", "b">>}
    /\ lower(suffix(name)) \in {<<".", "j", "p", "g">>, <<".", "j", "p", "e", "g">>,
                                <<".", "p", "n", "g">>}

\* str.replace(ch, '')
RemoveChar(s, ch) == SelectByMask(s, [i \in 1..Len(s) |-> s[i] # ch])

\* str.replace(' & ', '--'): the occurrences from left to right, none
\* overlapping the one before it
RECURSIVE ReplaceSpacedAmpersandFrom(_, _)
ReplaceSpacedAmpersandFrom(s, i) ==
    IF i > Len(s) THEN <<>>
    ELSE IF i + 2 <= Len(s) /\ s[i] = " " /\ s[i+1] = "&" /\ s[i+2] = " "
         THEN <<"-", "-">> \o ReplaceSpacedAmpersandFrom(s, i + 3)
         ELSE <<s[i]>> \o ReplaceSpacedAmpersandFrom(s, i + 1)

\* the four apostrophe replacements
RemoveApostrophes(s) ==
    RemoveChar(RemoveChar(RemoveChar(RemoveChar(s, "'"), "U+2018"), "U+2019"), "U+201B")

\* generate_album_slug of ocr_pages.py and build_test_index.py
generate_album_slug(album_folder_name) ==
    LET s1 == ReplaceSpacedAmpersandFrom(lower(album_folder_name), 1)
        s2 == RemoveApostrophes(s1)
    IN  ReplaceChar(s2, " ", "-")

\* the slug of rebuild_search_index.py with the brackets left in
rebuild_generate_album_slug_brackets_kept(album_folder_name) ==
    LET s1 == ReplaceSpacedAmpersandFrom(lower(album_folder_name), 1)
        s3 == RemoveApostrophes(s1)
        s4 == RemoveChar(s3, "&")
    IN  ReplaceChar(s4, " ", "-")

\* generate_album_slug of rebuild_search_index.py
rebuild_generate_album_slug(album_folder_name) ==
    LET s1 == ReplaceSpacedAmpersandFrom(lower(album_folder_name), 1)
        s2 == RemoveChar(RemoveChar(RemoveChar(RemoveChar(RemoveChar(RemoveChar(
                  s1, "("), ")"), "["), "]"), "{"), "}")
        s3 == RemoveApostrophes(s2)
        s4 == RemoveChar(s3, "&")
    IN  ReplaceChar(s4, " ", "-")

----------------------------------------------------------------------------
(* The recognizers, and find_candidate_boxes and the region loop as        *)
(* functions of a page                                                     *)

\* pat in s
Contains(s, pat) ==
    \E i \in 1..(Len(s) - Len(pat) + 1) : SubSeq(s, i, i + Len(pat) - 1) = pat

\* refusal_patterns of ocr_crop_llm
RefusalPatterns ==
    {<<"t", "h", "e", "r", "e", " ", "i", "s", " ", "n", "o">>,
     <<"n", "o", " ", "v", "i", "s", "i", "b", "l", "e">>,
     <<"n", "o", " ", "d", "i", "s", "c", "e", "r", "n", "i", "b", "l", "e">>,
     <<"c", "a", "p", "t", "i", "o", "n", " ", "t", "e", "x", "t", ":">>,
     <<"t", "h", "e", " ", "i", "m", "a", "g", "e", " ", "a", "p", "p", "e", "a", "r", "s">>,
     <<"t", "h", "i", "s", " ", "p", "h", "o", "t", "o">>,
     <<"h", "o", "w", "e", "v", "e", "r", ",">>,
     <<"t", "h", "e", "r", "e", "f", "o", "r", "e", ",">>,
     <<"b", "a", "s", "e", "d", " ", "o", "n", " ", "y", "o", "u", "r", " ", "r", "u", "l", "e", "s">>}

\* the text ocr_crop_llm returns for the content of a model response
LlmText(content) ==
    LET t == strip(content)
        newlines == Cardinality({i \in 1..Len(t) : t[i] = "\n"})
    IN  IF t = <<".">> THEN <<>>
        ELSE IF /\ \E pat \in RefusalPatterns : Contains(lower(t), pat)
                /\ Len(t) < 200 /\ newlines < 3
             THEN <<>>
             ELSE clean_text(t)

\* pytesseract.image_to_string and clean_text; a reading is what a recognizer
\* answers for a crop: a text (ok) or an exception
Tesseract(reading) ==
    IF reading.ok THEN [ok |-> TRUE, by |-> "tesseract", text |-> ocr_crop(reading.text)]
    ELSE [ok |-> FALSE, by |-> "tesseract", text |-> <<>>]

\* ocr_crop_llm: the model's answer, or Tesseract's when the call or the
\* reading of its response raised
ocr_crop_llm(primary, secondary) ==
    IF primary.ok THEN [ok |-> TRUE, by |-> "llm", text |-> LlmText(primary.text)]
    ELSE Tesseract(secondary)

\* ocr_crop(crop, llm_client, llm_model, ...): ok is FALSE when it raises
ocr_crop_call(client, crop) ==
    IF client THEN ocr_crop_llm(crop.primary, crop.secondary)
    ELSE Tesseract(crop.secondary)

\* the component loop of find_candidate_boxes
RECURSIVE PaddedBoxesFrom(_, _, _)
PaddedBoxesFrom(pg, st, i) ==
    IF i > Len(st) THEN <<>>
    ELSE IF AreaFracRejected(pg, st[i]) \/ AspectRejected(st[i])
         THEN PaddedBoxesFrom(pg, st, i + 1)
         ELSE <<PadBox(pg, st[i])>> \o PaddedBoxesFrom(pg, st, i + 1)

find_candidate_boxes(pg, st) == IoUSuppress(SortByTopLeft(PaddedBoxesFrom(pg, st, 1)))

\* the region loop of process_album from region i on: the blocks, or ok = FALSE
\* when ocr_crop raised in a region
RECURSIVE RegionLoopFrom(_, _, _, _, _, _)
RegionLoopFrom(pg, regions, crops, client, i, bl) ==
    IF i > Len(regions) THEN [ok |-> TRUE, blocks |-> bl]
    ELSE IF AreaTooLarge(pg, regions[i])
         THEN RegionLoopFrom(pg, regions, crops, client, i + 1, bl)
         ELSE LET got == ocr_crop_call(client, crops[i])
                  t == filter_text_lines(got.text)
              IN  IF ~got.ok THEN [ok |-> FALSE, blocks |-> bl]
                  ELSE RegionLoopFrom(pg, regions, crops, client, i + 1,
                          IF BlockVerdict(t, IsTall(pg, regions[i])) = "accept"
                          THEN Append(bl, Block(regions[i], t))
                          ELSE bl)

\* one iteration of "for p in images" on a readable image: the page record,
\* or ok = FALSE when an exception left the loop body
page_record(album, img, client) ==
    LET regions == find_candidate_boxes(img.page, img.stats)
        looped == RegionLoopFrom(img.page, regions, img.crops, client, 1, <<>>)
        sorted == SortBlocks(looped.blocks)
    IN  [ok |-> looped.ok,
         record |-> [filename |-> img.filename,
                     path |-> album \o <<"/">> \o img.filename,
                     blocks |-> sorted,
                     full_text |-> full_text(sorted),
                     captions |-> Captions(sorted),
                     caption_text |-> full_text(sorted)]]

----------------------------------------------------------------------------
(* parse_album_metadata: index.md is a sequence of chunks, the marker "---" *)
(* or a piece of text that holds no marker                                 *)

Marker == "---"
\* the pieces of front-matter text: two mapping entries, a list item, a plain
\* scalar and an unbalanced flow sequence
TitleEntry == "title: Farm"
WeightEntry == "weight: 5"
ListItem == "- farm"
PlainScalar == "farm"
Unbalanced == "title: ["

\* content.split('---', 2): the chunks before the first marker, between the
\* first two markers, and the rest
split_markers(content) ==
    LET marks == {i \in 1..Len(content) : content[i] = Marker}
        m1 == CHOOSE i \in marks : \A j \in marks : i <= j
        rest == marks \ {m1}
        m2 == CHOOSE i \in rest : \A j \in rest : i <= j
    IN  IF marks = {} THEN <<content>>
        ELSE IF rest = {} THEN <<SubSeq(content, 1, m1 - 1), SubSeq(content, m1 + 1, Len(content))>>
        ELSE <<SubSeq(content, 1, m1 - 1), SubSeq(content, m1 + 1, m2 - 1),
               SubSeq(content, m2 + 1, Len(content))>>

\* yaml.safe_load on the chunks of the front-matter, each a line: None, a
\* mapping (title and weight are lists of at most one value), a list, a str,
\* or a YAMLError (an unbalanced bracket; lines of different kinds)
safe_load(chunks) ==
    LET kinds == Range(chunks)
    IN  IF kinds = {} THEN [kind |-> "none", title |-> <<>>, weight |-> <<>>]
        ELSE IF kinds \subseteq {TitleEntry, WeightEntry}
        THEN [kind |-> "mapping",
              title |-> IF TitleEntry \in kinds THEN << <<"F", "a", "r", "m">> >> ELSE <<>>,
              weight |-> IF WeightEntry \in kinds THEN <<5>> ELSE <<>>]
        ELSE IF kinds = {ListItem} THEN [kind |-> "list", title |-> <<>>, weight |-> <<>>]
        ELSE IF kinds = {PlainScalar} THEN [kind |-> "str", title |-> <<>>, weight |-> <<>>]
        ELSE [kind |-> "error", title |-> <<>>, weight |-> <<>>]

\* d.get(key, default) on a field that holds at most one value
get(field, default) == IF field = <<>> THEN default ELSE field[1]

\* the defaults of parse_album_metadata
DefaultMetadata(name) == [raised |-> FALSE, title |-> name, weight |-> 0]

\* parse_album_metadata of ocr_pages.py: the dictionary returned, or raised
\* when an exception other than YAMLError leaves the function
parse_album_metadata(name, index_md) ==
    IF ~index_md.exists THEN DefaultMetadata(name)
    ELSE IF index_md.content = <<>> \/ index_md.content[1] # Marker THEN DefaultMetadata(name)
    ELSE LET parts == split_markers(index_md.content)
             frontmatter == safe_load(parts[2])
         IN  IF Len(parts) < 3 THEN DefaultMetadata(name)
             ELSE IF frontmatter.kind = "error" THEN DefaultMetadata(name)
             ELSE IF frontmatter.kind = "mapping"
                  THEN [raised |-> FALSE, title |-> get(frontmatter.title, name),
                        weight |-> get(frontmatter.weight, 0)]
                  ELSE [raised |-> TRUE, title |-> name, weight |-> 0]

\* parse_album_metadata of rebuild_search_index.py and the metadata.get("title",
\* album_dir.name) of its caller: None becomes {} ("or {}"), a list or a str is
\* returned and has no .get
rebuild_album_title(name, index_md) ==
    IF ~index_md.exists THEN [raised |-> FALSE, title |-> name]
    ELSE IF index_md.content = <<>> \/ index_md.content[1] # Marker
         THEN [raised |-> FALSE, title |-> name]
    ELSE LET parts == split_markers(index_md.content)
             loaded == safe_load(parts[2])
         IN  IF Len(parts) < 3 \/ loaded.kind \in {"error", "none"}
             THEN [raised |-> FALSE, title |-> name]
             ELSE IF loaded.kind = "mapping"
                  THEN [raised |-> FALSE, title |-> get(loaded.title, name)]
                  ELSE [raised |-> TRUE, title |-> name]

----------------------------------------------------------------------------
(* process_albums_batch and rebuild_search_index                            *)

\* the images of an album as iterdir() lists them, the sort left out
real_images_unsorted(album) ==
    SelectSeq(album.files, LAMBDA f : is_real_image_file(f.filename))

\* images = sorted([p for p in album_dir.iterdir() if is_real_image_file(p)])
real_images(album) ==
    SortByFilename(SelectSeq(album.files, LAMBDA f : is_real_image_file(f.filename)))

\* " ".join(captions)
RECURSIVE join_space(_, _)
join_space(parts, i) ==
    IF i > Len(parts) THEN <<>>
    ELSE IF i = Len(parts) THEN parts[i]
    ELSE parts[i] \o <<" ">> \o join_space(parts, i + 1)

\* album_data of process_albums_batch
AlbumData(name, md, records) ==
    [album |-> name, album_title |-> md.title, album_weight |-> md.weight,
     pages |-> records]

\* the album entry, the same in both scripts
AlbumEntry(name, title, slug) ==
    [type |-> "album", album |-> name, album_title |-> title,
     album_url_slug |-> slug, album_path |-> name \o <<"/">>,
     searchable_text |-> title]

\* the page entries numbered from one
PageEntries_from_one(name, title, slug, records) ==
    [k \in 1..Len(records) |->
        [type |-> "page", album |-> name, album_title |-> title,
         album_url_slug |-> slug,
         page_filename |-> records[k].filename,
         page_path |-> records[k].path,
         image_index |-> k,
         captions |-> records[k].captions,
         searchable_text |->
             join_space(records[k].captions, 1) \o <<" ">> \o records[k].filename]]

\* the page entries of process_albums_batch: sorted(album_records, key=filename)
\* and enumerate
PageEntries(name, title, slug, records) ==
    LET sorted_pages == SortByFilename(records)
    IN  [k \in 1..Len(sorted_pages) |->
            [type |-> "page", album |-> name, album_title |-> title,
             album_url_slug |-> slug,
             page_filename |-> sorted_pages[k].filename,
             page_path |-> sorted_pages[k].path,
             image_index |-> k - 1,
             captions |-> sorted_pages[k].captions,
             searchable_text |->
                 join_space(sorted_pages[k].captions, 1) \o <<" ">>
                     \o sorted_pages[k].filename]]

\* the page entries of rebuild_search_index: the same with caption_text
RebuiltPageEntries(name, title, slug, records) ==
    LET pages == SortByFilename(records)
    IN  [k \in 1..Len(pages) |->
            [type |-> "page", album |-> name, album_title |-> title,
             album_url_slug |-> slug,
             page_filename |-> pages[k].filename,
             page_path |-> pages[k].path,
             image_index |-> k - 1,
             captions |-> pages[k].captions,
             caption_text |-> join_space(pages[k].captions, 1),
             searchable_text |->
                 join_space(pages[k].captions, 1) \o <<" ">> \o pages[k].filename]]

----------------------------------------------------------------------------
(* Inputs                                                                  *)

\* all sequences over S of length at most n
SeqsUpTo(S, n) == UNION {[1..k -> S] : k \in 0..n}

MaxCleanLen == 6
CleanAlphabet == {"a", " ", "\t", "\n", "\r", "\f"}

\* pages and connected components the detector is run on
MaxComponents == 2
PageSizes == {[w |-> 200, h |-> 100]}
CompOrigins == {<<0, 0>>, <<20, 0>>, <<40, 0>>, <<0, 10>>, <<20, 10>>, <<40, 50>>}
\* <<bw, bh, area>>: caption strips, a speck, a square, a huge light region and
\* a sparse component with a huge bounding box
CompShapes == {<<40, 10, 400>>, <<60, 20, 1200>>, <<4, 2, 8>>, <<40, 40, 1600>>,
               <<150, 50, 7500>>, <<150, 50, 3000>>}
Components(pg) ==
    {c \in {<<o[1], o[2], sh[1], sh[2], sh[3]>> : o \in CompOrigins, sh \in CompShapes} :
        c[1] + c[3] <= pg.w /\ c[2] + c[4] <= pg.h}

\* texts made of at most n tokens
TokenTexts(tokens, n) == {Concat(ts) : ts \in SeqsUpTo(tokens, n)}

\* sentences for the duplication check: words of four letters and more, ending
\* a sentence or not, and a sentence without any such word
MaxDupTokens == 4
DupTokens == {<<"f", "a", "r", "m", " ">>, <<"B", "a", "r", "n", " ">>, <<"l", "a", "k", "e", " ">>,
              <<"f", "a", "r", "m", ".", " ">>, <<"b", "a", "r", "n", "!", " ">>, <<"l", "a", "k", "e", ".", "\n">>, <<"a", "t", ".", " ">>}

\* lines for the line filter.  A text is some context lines and a last line.
MaxContextLines == 2
ContextLines == {
    <<"N", "o", "v", "e", "m", "b", "e", "r", ",", " ", "1", "9", "4", "7">>,                \* kept, no terminal punctuation
    <<"E", "d", "e", "n", " ", "M", "i", "l", "l", " ", "f", "a", "r", "m", ".">>,               \* kept, terminal, no cue
    <<"P", "i", "c", "n", "i", "c", " ", "n", "e", "a", "r", " ", "t", "h", "e", " ", "l", "a", "k", "e", ".">>,         \* kept, terminal, cue among the last 4 words
    <<"W", "e", "n", "t", " ", "t", "o", " ", "t", "h", "e", " ", "o", "l", "d", " ", "E", "d", "e", "n", " ", "M", "i", "l", "l", ".">>,    \* kept, terminal, cue before the last 4 words
    <<"E", "d", "e", "n", " ", "M", "i", "l", "l", " ", "f", "a", "r", "m", ".", ".", ".">>,             \* kept, ends in an ellipsis
    <<"c", "l", "u", "b", ".">>,                         \* kept by continuation only
    <<"x", "q", "#", "#">>,                          \* never kept
    <<>>}                              \* blank line
LineSamples == {
    <<"N", "o", "v", "e", "m", "b", "e", "r", ",", " ", "1", "9", "4", "7">>, <<"x", "q", "#", "#">>, <<"C", "l", "u", "b", ".">>, <<"c", "l", "u", "b", ".">>, <<"a", "b", " ", "c", "d", " ", "e", "f">>,
    <<"l", "a", "k", "e", " ", "1", "9", "4", "7">>, <<"t", "h", "e", " ", "f", "a", "r", "m">>, <<"E", "d", "e", "n", " ", "M", "i">>, <<"t", "h", "e", " ", "o", "l", "d", " ", "e", "l", "m">>, <<"E", "d", "e", "n", " ", "M", "i", "l", "l">>,
    <<"n", "n", "n", "n", "n", "n", "n", " ", "E", "d", "e", "n", " ", "M", "i", "l", "l">>, <<"n", "n", "n", "n", "n", "n", " ", "E", "d", "e", "n", " ", "M", "i", "l", "l">>, <<"n", "n", "n", "n", "n", "n", "n">>, <<"é", "é", "é", "é", "é", "é", "é", " ", "E", "d", "e", "n", " ", "M", "i", "l", "l">>,
    <<"a", "a", "a", "a", " ", "b", "b", "b", "b", " ", "c", "c", "c", "c">>, <<"a", "a", "a", "a", " ", "b", "b", "b", "b", " ", "E", "d", "e", "n">>,
    <<"E", "d", "e", "n", " ", "1", "2", "3", "4", "5", "6", "7", "8", "9", "0", "1", "2", "3">>, <<"E", "d", "e", "n", " ", "1", "2", "3", "4", "5", "6", "7", "8", "9", "0", "1">>, <<"E", "d", "e", "n", " ", "é", "é", "é", " ", "1", "2", "3", "4", "5", "6", "7", "8", "9", "0", "1", "2">>,
    <<"E", "d", "e", "n", " ", "M", "i", "l", "l", " ", "#", "#", "#", "#", "#", "#">>, <<"E", "d", "e", "n", " ", "M", "i", "l", "l", " ", "a", "b", "c", "#", "#", "#", "#", "#", "#", "#">>,
    <<"E", "d", "e", "n", " ", "1", "9", "4", "#", "#">>, <<"E", "d", "e", "n", " ", "1", "9", "4", "#">>, <<"E", "d", "e", "n", " ", "1", "9", "4">>,
    <<"M", "a", "y", " ", "1", ",", " ", "1", "9", "4", "7">>,
    <<"S", "o", "u", "d", "e", "r", "s", "b", "u", "r", "g", "t", "o", "w", "n", "s", "h", "i", "p", " ", "1", "9", "4", "7", " ", "1", "9", "4", "8", " ", "1", "9", "4", "9", " ", "1", "9", "5", "0", " ", "1", "9", "5", "1", " ", "1", "9", "5", "2", "1">>,
    <<"S", "o", "u", "d", "e", "r", "s", "b", "u", "r", "g", "t", "o", "w", "n", "s", "h", "i", "p", " ", "1", "9", "4", "7", " ", "1", "9", "4", "8", " ", "1", "9", "4", "9", " ", "1", "9", "5", "0", " ", "1", "9", "5", "1", " ", "1", "9", "5", "2", "1", "2">>,
    <<"s", "o", "u", "d", "e", "r", "s", "b", "u", "r", "g", "t", "o", "w", "n", "s", "h", "i", "p", " ", "a", " ", "b", "c">>, <<"s", "o", "u", "d", "e", "r", "s", "b", "u", "r", "g", "t", "o", "w", "n", "s", "h", "i", "p", " ", "a", "b", " ", "c", "d">>}
LineTexts ==
    {clean_text(JoinLines(Append(ctx, ln))) :
        ctx \in SeqsUpTo(ContextLines, MaxContextLines), ln \in LineSamples}

\* the page of the region loop and its components: one per kind of region,
\* none overlapping another.  Padded by 2, they are a caption strip, a tall
\* region, a tall region of exactly 0.14 of the page, a region of exactly 22%
\* of the page height, a region of more than 0.14 of the page and a region of
\* exactly 40% of the page width
AlbumPage == [w |-> 240, h |-> 200]
AlbumComponents == {<<4, 4, 40, 10, 400>>, <<4, 22, 106, 46, 4876>>,
                    <<4, 77, 108, 56, 6048>>, <<4, 142, 106, 40, 4240>>,
                    <<124, 4, 110, 56, 6160>>, <<124, 72, 92, 46, 4232>>}
\* a page of three caption strips, the third overlapping the first, larger and
\* lower than the second: the suppression puts it in the slot of the first
OverlapLayout == <<<<4, 4, 40, 10, 400>>, <<124, 8, 40, 10, 400>>, <<4, 10, 46, 12, 552>> >>
\* the pages: at most MaxRegions components, labelled in raster order
MaxRegions == 2
AlbumPages ==
    {st \in SeqsUpTo(AlbumComponents, MaxRegions) :
        \A i \in 1..Len(st) : \A j \in (i+1)..Len(st) : KeyLess(st[i], st[j])}
    \cup {OverlapLayout}

\* what the recognizer may read in a region
Dense26 == <<"E", "d", "e", "n", " ", "M", "i", "l", "l", " ", "f", "a", "r", "m", " ", "p", "i", "c", "n", "i", "c", " ", "n", "e", "a", "r", " ", "l", "a", "k", "e">>
Dense27 == <<"E", "d", "e", "n", " ", "M", "i", "l", "l", " ", "f", "a", "r", "m", " ", "p", "i", "c", "n", "i", "c", " ", "n", "e", "a", "r", " ", "l", "a", "k", "e", "s">>
Sparse29 == <<"E", "d", "e", "n", " ", "M", "i", "l", "l", "s", " ", "1", "2", "3", "4", "5", "6", "7", "8", "9", "0", "1", "2", "3", "4", "5", "6", "7", "8">>
Sparse30 == <<"E", "d", "e", "n", " ", "M", "i", "l", "l", "s", " ", "1", "2", "3", "4", "5", "6", "7", "8", "9", "0", "1", "2", "3", "4", "5", "6", "7", "8", "9">>
MayLine == <<"M", "a", "y", " ", "1", ",", " ", "1", "9", "4", "7", " ", "a", "b", " ", "c">>
RecognizedTexts == {
    <<>>,                                   \* no caption found
    <<"N", "o", "v", "e", "m", "b", "e", "r", ",", " ", "1", "9", "4", "7", " ", "\n", "\n", "\n">>,    \* one short line with a capital
    <<"e", "l", "m", " ", "o", "a", "k", " ", "a", "s", "h">>,                    \* three 3-letter words, no capital
    <<"E", "l", "m", ",", " ", "o", "a", "k", ";", " ", "a", "s", "h", ".">>,       \* symbol fraction 3/14
    <<"E", "l", "m", ",", " ", "o", "a", "k", ";", " ", "a", "s", "h", ".", " ", "!">>,  \* symbol fraction 4/16
    <<"f", "a", "r", "m", " ", "b", "a", "r", "n">>,                          \* two 4-letter words, no capital
    <<"e", "l", "m", " ", "o", "a", "k", " ", "a", "s", "h", " ", "f", "i", "r">>,    \* four 3-letter words, no capital
    JoinLines(<<MayLine, MayLine, MayLine>>),                   \* 50 characters
    JoinLines(<<MayLine, MayLine, MayLine \o <<"d">> >>),       \* 51 characters
    JoinLines(<<Dense27, Dense26, Dense26>>),                   \* 79 letters
    JoinLines(<<Dense27, Dense27, Dense26>>),                   \* 80 letters
    JoinLines([k \in 1..10 |-> IF k < 10 THEN Sparse29 ELSE Sparse30]),  \* 90 letters of 300 characters
    JoinLines([k \in 1..10 |-> Sparse30])}                      \* 90 letters of 309 characters
\* the return values of ocr_crop on them
OcrTexts == {ocr_crop(raw) : raw \in RecognizedTexts}

\* the albums of a batch run.  A scanned page has one caption-strip component
\* or none; a crop is what each recognizer answers on it
Strip == <<4, 4, 40, 10, 400>>
Reads(t) == [ok |-> TRUE, text |-> t]
Raises == [ok |-> FALSE, text |-> <<>>]
CaptionRead == <<"N", "o", "v", "e", "m", "b", "e", "r", ",", " ", "1", "9", "4", "7">>
FallbackRead == <<"E", "d", "e", "n", " ", "M", "i", "l", "l", " ", "f", "a", "r", "m">>
\* an unreadable file, a page without a region, and pages with one region:
\* read by both recognizers, by the second only, by none, and read as empty
ImageKinds ==
    {[readable |-> FALSE, stats |-> <<>>, crops |-> <<>>],
     [readable |-> TRUE, stats |-> <<>>, crops |-> <<>>],
     [readable |-> TRUE, stats |-> <<Strip>>,
      crops |-> <<[primary |-> Reads(CaptionRead), secondary |-> Reads(FallbackRead)]>>],
     [readable |-> TRUE, stats |-> <<Strip>>,
      crops |-> <<[primary |-> Raises, secondary |-> Reads(FallbackRead)]>>],
     [readable |-> TRUE, stats |-> <<Strip>>,
      crops |-> <<[primary |-> Raises, secondary |-> Raises]>>],
     [readable |-> TRUE, stats |-> <<Strip>>,
      crops |-> <<[primary |-> Reads(<<".">>), secondary |-> Reads(<<>>)]>>]}
ImageFile(name, kind) ==
    [filename |-> name, readable |-> kind.readable, page |-> AlbumPage,
     stats |-> kind.stats, crops |-> kind.crops]
ImageNames == {<<"p", "1", ".", "j", "p", "g">>, <<"p", "1", "0", ".", "j", "p", "g">>,
               <<"p", "2", ".", "J", "P", "G">>}
\* a resource-fork file: its name ends in .jpg and it is no image
JunkFile ==
    [filename |-> <<".", "_", "p", "1", ".", "j", "p", "g">>, readable |-> FALSE,
     page |-> AlbumPage, stats |-> <<>>, crops |-> <<>>]

\* iterdir() lists in no particular order: here, by descending name
Listing(kinds) ==
    LET names == DOMAIN kinds
        at(p) == CHOOSE x \in names : Cardinality({y \in names : StrLess(x, y)}) = p - 1
    IN  [p \in 1..Cardinality(names) |-> ImageFile(at(p), kinds[at(p)])] \o <<JunkFile>>

MaxImages == 2
Listings ==
    {Listing(kinds) : kinds \in UNION {[names -> ImageKinds] :
        names \in {s \in SUBSET ImageNames : Cardinality(s) <= MaxImages}}}

TitledIndex == [exists |-> TRUE, content |-> <<Marker, TitleEntry, Marker, PlainScalar>>]
PlainIndex == [exists |-> TRUE, content |-> <<PlainScalar>>]
EmptyFrontMatterIndex == [exists |-> TRUE, content |-> <<Marker, Marker, PlainScalar>>]
NoArtifact == [exists |-> FALSE, content |-> <<>>]
FirstAlbumName == <<"1", "9", "4", "7", " ", "A", "&", "B", " ", "(", "2", ")">>
SecondAlbumName == <<"1", "9", "5", "0", " ", "c", " ", "&", " ", "d">>
\* the artifact a previous run left in the first album
OldArtifact ==
    [exists |-> TRUE,
     content |-> <<AlbumData(FirstAlbumName, DefaultMetadata(FirstAlbumName),
                    <<page_record(FirstAlbumName,
                                  ImageFile(<<"p", "0", ".", "j", "p", "g">>,
                                      [readable |-> TRUE, stats |-> <<Strip>>,
                                       crops |-> <<[primary |-> Raises,
                                                    secondary |-> Reads(FallbackRead)]>>]),
                                  FALSE).record>>)>>]
\* two album directories, the second with one captioned page
ContentDirs ==
    {<<[name |-> FirstAlbumName, index_md |-> ix, previous |-> OldArtifact, files |-> ls],
       [name |-> SecondAlbumName, index_md |-> PlainIndex, previous |-> NoArtifact,
        files |-> Listing([n \in {<<"p", "1", ".", "j", "p", "g">>} |->
                     [readable |-> TRUE, stats |-> <<Strip>>,
                      crops |-> <<[primary |-> Reads(CaptionRead),
                                   secondary |-> Reads(FallbackRead)]>>]])]>> :
        ix \in {TitledIndex, PlainIndex, EmptyFrontMatterIndex}, ls \in Listings}

textVars == <<text, result>>
lineVars == <<lines, kept>>
boxVars == <<page, stats, boxes, merged>>
albumVars == <<is_tall, calls, outcome, blocks, captions>>
batchVars == <<album_dirs, llm_client, album_i, metadata, album_records,
               all_search_entries, artifacts, search_index>>
vars == <<pc, idx, text, result, lines, kept, page, stats, boxes, merged,
         is_tall, calls, outcome, blocks, captions,
         album_dirs, llm_client, album_i, metadata, album_records,
         all_search_entries, artifacts, search_index>>

\* values of the variables an operation does not use
IdleText == text = <<>> /\ result = <<>>
IdleLines == lines = <<>> /\ kept = <<>>
IdleBoxes ==
    /\ page = [w |-> 0, h |-> 0]
    /\ stats = <<>> /\ boxes = <<>> /\ merged = <<>>
IdleAlbum ==
    /\ is_tall = FALSE /\ calls = <<>>
    /\ outcome = "none" /\ blocks = <<>> /\ captions = <<>>
IdleBatch ==
    /\ album_dirs = <<>> /\ llm_client = FALSE /\ album_i = 0
    /\ metadata = DefaultMetadata(<<>>) /\ album_records = <<>>
    /\ all_search_entries = <<>> /\ artifacts = <<>>
    /\ search_index = [exists |-> FALSE, content |-> <<>>]

----------------------------------------------------------------------------
(* Text Normalizer: clean_text applied to a raw recognized text            *)

InitClean ==
    /\ pc = "clean"
    /\ text \in SeqsUpTo(CleanAlphabet, MaxCleanLen)
    /\ result = <<>>
    /\ idx = 0
    /\ IdleLines /\ IdleBoxes /\ IdleAlbum /\ IdleBatch

CleanText ==
    /\ pc = "clean"
    /\ result' = clean_text(text)
    /\ pc' = "cleaned"
    /\ UNCHANGED <<text, idx, lineVars, boxVars, albumVars, batchVars>>

NextClean == CleanText

SpecClean == InitClean /\ [][NextClean]_vars

HasTripleNewline(s) ==
    \E i \in 1..(Len(s) - 2) : s[i] = "\n" /\ s[i+1] = "\n" /\ s[i+2] = "\n"

\* C2: clean_text is idempotent, and its result has no run of three or more
\* newlines and no leading or trailing whitespace.
CleanTextIdempotent ==
    pc = "cleaned" =>
        /\ clean_text(result) = result
        /\ ~HasTripleNewline(result)
        /\ (result # <<>> => ~isspace(result[1]) /\ ~isspace(result[Len(result)]))

\* a text whose blank-separated newlines collapse to one blank line
CleanTextWitness ==
    /\ pc = "cleaned"
    /\ \E i \in 1..(Len(text) - 4) :
          /\ ~isspace(text[i])
          /\ text[i+1] \in {"\n", "\r"} /\ text[i+2] \in Blank \cup {"\f"}
          /\ text[i+3] \in {"\n", "\r"} /\ text[i+4] \in {"\n", "\r"}
    /\ result # text
    /\ \E i \in 1..(Len(result) - 1) : result[i] = "\n" /\ result[i+1] = "\n"

----------------------------------------------------------------------------
(* Hallucination/Duplication Filter: detect_llm_duplication on one text    *)

InitDup ==
    /\ pc = "dedup"
    /\ text \in {clean_text(t) : t \in TokenTexts(DupTokens, MaxDupTokens)}
    /\ result = <<>>
    /\ idx = 0
    /\ IdleLines /\ IdleBoxes /\ IdleAlbum /\ IdleBatch

DetectDuplication ==
    /\ pc = "dedup"
    /\ result' = detect_llm_duplication(text)
    /\ pc' = "deduped"
    /\ UNCHANGED <<text, idx, lineVars, boxVars, albumVars, batchVars>>

NextDup == DetectDuplication

SpecDup == InitDup /\ [][NextDup]_vars

\* the distinct lowercase words of length >= 4 of the k-th sentence of s
SentenceWords(s, k) == WordSet4(SplitSentences(s)[k].sentence)
\* where the k-th sentence of s starts
SentenceStart(s, k) ==
    IF k = 1 THEN 1 ELSE DelimiterEnd(s, SortedSeq(DelimiterStarts(s))[k-1]) + 1
\* s cut before its k-th sentence, trimmed
CutBefore(s, k) == strip(SubSeq(s, 1, SentenceStart(s, k) - 1))
MinOf(S) == CHOOSE k \in S : \A l \in S : k <= l

\* C3 as stated: the text is cut at the first sentence more than 50% of whose
\* own words occur in one earlier sentence; sentence 2 repeating more than 50%
\* of sentence 1's words leaves sentence 1 only; otherwise the text is returned
\* whole, trimmed.
CutAtOwnWordMajority ==
    pc = "deduped" =>
        LET n == Len(SplitSentences(text))
            W(k) == SentenceWords(text, k)
            repeats(k) == \E j \in 1..(k-1) :
                              10 * Cardinality(W(k) \cap W(j)) > 5 * Cardinality(W(k))
            cuts == {k \in 1..n : repeats(k)}
        IN  /\ result = IF cuts = {} THEN strip(text) ELSE CutBefore(text, MinOf(cuts))
            /\ (n >= 2 /\ 10 * Cardinality(W(2) \cap W(1)) > 5 * Cardinality(W(1)))
                  => result = CutBefore(text, 2)

\* C3 amended: the text is cut at the first sentence that has, with one earlier
\* sentence, more words in common than 50% of the larger of the two word sets
\* (neither being empty); when that holds of sentences 2 and 1 the result is
\* sentence 1 only; otherwise the text is returned whole, trimmed when it holds
\* a sentence delimiter and unchanged when it holds none.
CutAtMutualWordMajority ==
    pc = "deduped" =>
        LET n == Len(SplitSentences(text))
            W(k) == SentenceWords(text, k)
            common(k, j) == Cardinality(W(k) \cap W(j))
            larger(k, j) == Max(Cardinality(W(k)), Cardinality(W(j)))
            repeats(k) == \E j \in 1..(k-1) :
                              /\ W(k) # {} /\ W(j) # {}
                              /\ 10 * common(k, j) > 5 * larger(k, j)
            cuts == {k \in 1..n : repeats(k)}
        IN  /\ result = IF cuts # {} THEN CutBefore(text, MinOf(cuts))
                        ELSE IF n >= 2 THEN strip(text)
                        ELSE text
            /\ (n >= 2 /\ repeats(2)) => result = CutBefore(text, 2)

\* a text was cut at its third sentence, which shares some but not all of its
\* words with an earlier sentence
CutAtMutualWordMajorityWitness ==
    /\ pc = "deduped"
    /\ Len(SplitSentences(text)) >= 3
    /\ result = CutBefore(text, 3)
    /\ result # strip(text)
    /\ \E j \in 1..2 :
          /\ SentenceWords(text, 3) \cap SentenceWords(text, j) # {}
          /\ SentenceWords(text, 3) # SentenceWords(text, j)

----------------------------------------------------------------------------
(* Line Quality Filter: filter_text_lines on one recognized text           *)

InitLines ==
    /\ pc = "filter_start"
    /\ text \in LineTexts
    /\ result = <<>>
    /\ lines = <<>>
    /\ kept = <<>>
    /\ idx = 0
    /\ IdleBoxes /\ IdleAlbum /\ IdleBatch

\* text = detect_llm_duplication(text); lines = [ln.strip() ...]; kept = []
StartFilter ==
    /\ pc = "filter_start"
    /\ lines' = StrippedLines(text)
    /\ kept' = <<>>
    /\ idx' = 1
    /\ pc' = "filter_lines"
    /\ UNCHANGED <<text, result, boxVars, albumVars, batchVars>>

\* for ln in lines: keep the line or drop it
FilterLine ==
    /\ pc = "filter_lines"
    /\ idx <= Len(lines)
    /\ kept' = FilterStep(kept, lines[idx])
    /\ idx' = idx + 1
    /\ UNCHANGED <<pc, text, result, lines, boxVars, albumVars, batchVars>>

\* return "\n".join(kept).strip()
ReturnKept ==
    /\ pc = "filter_lines"
    /\ idx > Len(lines)
    /\ result' = strip(JoinLines(kept))
    /\ pc' = "filtered"
    /\ UNCHANGED <<idx, text, lines, kept, boxVars, albumVars, batchVars>>

NextLines == StartFilter \/ FilterLine \/ ReturnKept

SpecLines == InitLines /\ [][NextLines]_vars

\* the lines of the filter's output: those kept so far and, once it has
\* returned, the lines of the returned text
OutputLines ==
    Range(kept) \cup (IF pc = "filtered" THEN Range(splitlines(result)) ELSE {})

\* n or more copies of one ASCII letter start at position i of ln
LetterRunAt(ln, i, n) ==
    /\ i + n - 1 <= Len(ln)
    /\ ln[i] \in AsciiLetter
    /\ \A k \in i..(i + n - 1) : ln[k] = ln[i]
\* a run of 7 or more identical letters, or three or more runs of a letter
\* repeated 4 or more times
Repetitive(ln) ==
    \/ \E i \in 1..Len(ln) : LetterRunAt(ln, i, 7)
    \/ Cardinality({i \in 1..Len(ln) :
           LetterRunAt(ln, i, 4) /\ (i = 1 \/ ln[i-1] # ln[i])}) >= 3

PassesLadder(ln) ==
    /\ CountAlpha(ln) >= 4
    /\ 100 * CountAlpha(ln) >= 25 * Len(ln)
    /\ 100 * CountSym(ln) <= 35 * Len(ln)

\* C5: every line of filter_text_lines' output has at least 4 letters, a letter
\* fraction >= 0.25 and a symbol fraction <= 0.35.
KeptLinesPassLadder ==
    pc \in {"filter_lines", "filtered"} => \A ln \in OutputLines : PassesLadder(ln)

\* at least two words of length >= 4, or at least three of length >= 3
Strict(ln) == CountWords(ln, 4) >= 2 \/ CountWords(ln, 3) >= 3
\* length in [8,50], a word of length >= 3, an uppercase letter, symbol
\* fraction < 0.20
PermissiveShort(ln) ==
    /\ Len(ln) >= 8 /\ Len(ln) <= 50
    /\ CountWords(ln, 3) >= 1
    /\ \E i \in 1..Len(ln) : isupper(ln[i])
    /\ 100 * CountSym(ln) < 20 * Len(ln)

\* a permissive-short line with too few letters for its length was dropped from
\* a text of which another line was kept
KeptLinesPassLadderWitness ==
    /\ pc = "filtered"
    /\ result # <<>>
    /\ \E k \in 1..Len(lines) :
          /\ PermissiveShort(lines[k]) /\ 100 * CountAlpha(lines[k]) < 25 * Len(lines[k])
          /\ lines[k] \notin Range(kept)

\* the loop is about to examine the line ln
Examining(ln) == pc = "filter_lines" /\ idx <= Len(lines) /\ ln = lines[idx]

\* C6: a non-blank line that passes the repetition check and the rejection
\* ladder is kept, whatever was kept before it, when it meets the strict or the
\* permissive-short criterion; "November, 1947" is kept via permissive-short
\* and "xq##" is dropped.
LineAcceptance ==
    [][\A ln \in Range(lines) : Examining(ln) =>
          /\ (ln # <<>> /\ ~Repetitive(ln) /\ PassesLadder(ln)
                  /\ (Strict(ln) \/ PermissiveShort(ln)))
                => kept' = Append(kept, ln)
          /\ ln = <<"N", "o", "v", "e", "m", "b", "e", "r", ",", " ", "1", "9", "4", "7">>
                => (~Strict(ln) /\ PermissiveShort(ln) /\ kept' = Append(kept, ln))
          /\ ln = <<"x", "q", "#", "#">> => kept' = kept
      ]_vars

\* "November, 1947" was kept as the first line of a block, and a line of
\* exactly 8 characters after it
LineAcceptanceWitness ==
    /\ pc = "filter_lines"
    /\ Len(kept) = 2
    /\ kept[1] = <<"N", "o", "v", "e", "m", "b", "e", "r", ",", " ", "1", "9", "4", "7">>
    /\ Len(kept[2]) = 8 /\ PermissiveShort(kept[2]) /\ ~Strict(kept[2])

\* the continuation conditions on ln and the lines kept so far, the word count
\* being between lo and 2
Continues(ln, kept_list, lo) ==
    /\ CountWords(ln, 3) >= lo /\ CountWords(ln, 3) <= 2
    /\ Len(ln) <= 24
    /\ 100 * CountAlpha(ln) >= 50 * Len(ln)
    /\ kept_list # <<>>
    /\ LET last == kept_list[Len(kept_list)]
           words == split(lower(last))
       IN  \/ last[Len(last)] \notin {".", "!", "?"}
           \/ \E k \in 1..Len(words) : k > Len(words) - 4 /\ words[k] \in PrepositionCues
           \/ EndsWithEllipsis(last)
           \/ isupper(ln[1])

\* C7 as stated: a line that passes the ladder (and, to reach it, the
\* repetition check) and is neither strict nor permissive-short is kept exactly
\* when it is short (zero to two words), a line was already kept and the last
\* kept line invites a continuation.
ContinuationRuleAsStated ==
    [][\A ln \in Range(lines) :
          (Examining(ln) /\ ln # <<>> /\ ~Repetitive(ln) /\ PassesLadder(ln)
              /\ ~Strict(ln) /\ ~PermissiveShort(ln))
          => /\ (kept' = Append(kept, ln)) <=> Continues(ln, kept, 0)
             /\ (kept' # Append(kept, ln)) => kept' = kept
      ]_vars

\* C7 amended: a line that passes the repetition check and the ladder and is
\* neither strict nor permissive-short is kept exactly when it has one or two
\* words of length >= 3, total length <= 24, letter fraction >= 0.50, a line
\* was already kept and the last kept line invites a continuation; so no line
\* becomes the first kept line through the continuation rule.
ContinuationRule ==
    [][\A ln \in Range(lines) :
          (Examining(ln) /\ ln # <<>> /\ ~Repetitive(ln) /\ PassesLadder(ln)
              /\ ~Strict(ln) /\ ~PermissiveShort(ln))
          => /\ (kept' = Append(kept, ln)) <=> Continues(ln, kept, 1)
             /\ (kept' # Append(kept, ln)) => kept' = kept
             /\ kept = <<>> => kept' = <<>>
      ]_vars

\* a lowercase one-word line was kept after a line ending in an ellipsis
ContinuationRuleWitness ==
    /\ pc = "filter_lines"
    /\ Len(kept) = 2
    /\ EndsWithEllipsis(kept[1])
    /\ kept[2] = <<"c", "l", "u", "b", ".">>
    /\ ~Strict(kept[2]) /\ ~PermissiveShort(kept[2])

\* the block checks that follow the tall-region check
LaterBlockChecks ==
    {"text too short", "too few letters", "low alpha ratio", "low alnum ratio",
     "no long words", "too many short lines"}

\* C25: Block checks 5-9 are implied by the line filter.  On every non-empty
\* text returned by filter_text_lines none of the block checks "text length
\* < 4", "letter count < 4", "letter fraction < 0.12", "alphanumeric fraction
\* < 0.12", "no long word while letter count >= 18" and "more than 60% of the
\* non-blank lines have length <= 2" fires, so a region with that text is
\* accepted or rejected by the insufficient-words or the tall-region check.
BlockChecksImplied ==
    (pc = "filtered" /\ result # <<>>) =>
        /\ Len(result) >= 4
        /\ CountAlpha(result) >= 4
        /\ 100 * CountAlpha(result) >= 12 * Len(result)
        /\ 100 * CountAlnum(result) >= 12 * Len(result)
        /\ ~(CountLongWords(result) < 1 /\ CountAlpha(result) >= 18)
        /\ ~TooManyShortLines(result)
        /\ \A tall \in BOOLEAN : BlockVerdict(result, tall) \notin LaterBlockChecks

\* the filter has dropped a second line of three letters and returned the
\* first line: the text is accepted in a region that is not tall and rejected
\* by the tall-region check in a tall one
BlockChecksImpliedWitness ==
    /\ pc = "filtered"
    /\ Len(lines) = 2
    /\ CountAlpha(lines[2]) = 3
    /\ kept = <<lines[1]>>
    /\ result = lines[1]
    /\ BlockVerdict(result, FALSE) = "accept"
    /\ BlockVerdict(result, TRUE) = "tall region with sparse text"

----------------------------------------------------------------------------
(* Region Detector and Overlap Resolver: find_candidate_boxes on the        *)
(* components of one thresholded page                                       *)

InitBoxes ==
    /\ pc = "components"
    /\ page \in PageSizes
    /\ stats \in SeqsUpTo(Components(page), MaxComponents)
    /\ boxes = <<>>
    /\ merged = <<>>
    /\ idx = 1
    /\ IdleText /\ IdleLines /\ IdleAlbum /\ IdleBatch

\* for i in range(1, num_labels): filter one component, pad and collect it
FilterComponent ==
    /\ pc = "components"
    /\ idx <= Len(stats)
    /\ boxes' = IF AreaFracRejected(page, stats[idx]) \/ AspectRejected(stats[idx])
                THEN boxes
                ELSE Append(boxes, PadBox(page, stats[idx]))
    /\ idx' = idx + 1
    /\ UNCHANGED <<pc, page, stats, merged, textVars, lineVars, albumVars, batchVars>>

\* boxes.sort(...) once the component loop has ended
SortBoxes ==
    /\ pc = "components"
    /\ idx > Len(stats)
    /\ boxes' = SortByTopLeft(boxes)
    /\ pc' = "suppress"
    /\ idx' = 1
    /\ UNCHANGED <<page, stats, merged, textVars, lineVars, albumVars, batchVars>>

\* for b in boxes: one box against the kept list
SuppressBox ==
    /\ pc = "suppress"
    /\ idx <= Len(boxes)
    /\ merged' = SuppressStep(merged, boxes[idx])
    /\ idx' = idx + 1
    /\ UNCHANGED <<pc, page, stats, boxes, textVars, lineVars, albumVars, batchVars>>

\* return merged
ReturnMerged ==
    /\ pc = "suppress"
    /\ idx > Len(boxes)
    /\ pc' = "boxes_done"
    /\ UNCHANGED <<idx, boxVars, textVars, lineVars, albumVars, batchVars>>

NextBoxes == FilterComponent \/ SortBoxes \/ SuppressBox \/ ReturnMerged

SpecBoxes == InitBoxes /\ [][NextBoxes]_vars

\* C1 as stated: on two candidate rectangles, IoU > 0.25 leaves exactly the
\* larger-area one, IoU <= 0.25 leaves both, and the surviving set is the same
\* whichever of the two is processed first.
PairSuppressionOrderFree ==
    (pc = "boxes_done" /\ Len(boxes) = 2) =>
        LET a == boxes[1]
            b == boxes[2]
        IN  /\ IoUAbove(a, b) =>
                /\ Len(merged) = 1
                /\ BoxArea(merged[1]) = Max(BoxArea(a), BoxArea(b))
            /\ ~IoUAbove(a, b) => merged = boxes
            /\ Range(IoUSuppress(Reverse(boxes))) = Range(merged)

\* C1 amended: as above, but the surviving set is the same for both processing
\* orders only when the areas differ or the IoU is <= 0.25; on equal areas and
\* IoU > 0.25 the rectangle processed first survives, in either order.
PairSuppression ==
    (pc = "boxes_done" /\ Len(boxes) = 2) =>
        LET a == boxes[1]
            b == boxes[2]
        IN  /\ IoUAbove(a, b) =>
                /\ Len(merged) = 1
                /\ BoxArea(merged[1]) = Max(BoxArea(a), BoxArea(b))
                /\ BoxArea(a) = BoxArea(b) =>
                      merged = <<a>> /\ IoUSuppress(Reverse(boxes)) = <<b>>
            /\ ~IoUAbove(a, b) => merged = boxes
            /\ (BoxArea(a) # BoxArea(b) \/ ~IoUAbove(a, b)) =>
                  Range(IoUSuppress(Reverse(boxes))) = Range(merged)

\* two different rectangles with IoU > 0.25 and different areas went through
\* the suppression, and the larger one is what is left
PairSuppressionWitness ==
    /\ pc = "boxes_done"
    /\ Len(boxes) = 2
    /\ IoUAbove(boxes[1], boxes[2])
    /\ BoxArea(boxes[1]) < BoxArea(boxes[2])
    /\ merged = <<boxes[2]>>

----------------------------------------------------------------------------
(* Block Quality Filter: process_album on one page, from the detector to    *)
(* the page record                                                          *)

InitAlbum ==
    /\ pc = "components"
    /\ page = AlbumPage
    /\ stats \in AlbumPages
    /\ boxes = <<>>
    /\ merged = <<>>
    /\ idx = 1
    /\ IdleText /\ IdleLines /\ IdleAlbum /\ IdleBatch

\* boxes = find_candidate_boxes(thr); blocks = []
BeginRegions ==
    /\ pc = "boxes_done"
    /\ blocks' = <<>>
    /\ idx' = 1
    /\ pc' = "region"
    /\ UNCHANGED <<is_tall, calls, outcome, captions, boxVars, textVars, lineVars, batchVars>>

\* for crop_idx, (x, y, w, h) in enumerate(boxes, 1): the geometry of the
\* region, before anything is recognized
RegionGeometry ==
    /\ pc = "region"
    /\ idx <= Len(merged)
    /\ IF AreaTooLarge(page, merged[idx])
       THEN /\ outcome' = "area too large"
            /\ idx' = idx + 1
            /\ UNCHANGED <<pc, is_tall>>
       ELSE /\ is_tall' = IsTall(page, merged[idx])
            /\ outcome' = "none"
            /\ pc' = "ocr"
            /\ UNCHANGED idx
    /\ UNCHANGED <<calls, blocks, captions, boxVars, textVars, lineVars, batchVars>>

\* text = ocr_crop(crop, ...)
Recognize ==
    /\ pc = "ocr"
    /\ text' \in OcrTexts
    /\ calls' = Append(calls, idx)
    /\ pc' = "block"
    /\ UNCHANGED <<idx, result, is_tall, outcome, blocks, captions, boxVars, lineVars, batchVars>>

\* text = filter_text_lines(text), the block checks and blocks.append(...)
FilterBlock ==
    /\ pc = "block"
    /\ LET t == filter_text_lines(text)
           verdict == BlockVerdict(t, is_tall)
       IN  /\ text' = t
           /\ outcome' = verdict
           /\ blocks' = IF verdict = "accept"
                        THEN Append(blocks, Block(merged[idx], t))
                        ELSE blocks
    /\ idx' = idx + 1
    /\ pc' = "region"
    /\ UNCHANGED <<result, is_tall, calls, captions, boxVars, lineVars, batchVars>>

\* blocks.sort(...) and the page record, once the region loop has ended
FinishPage ==
    /\ pc = "region"
    /\ idx > Len(merged)
    /\ blocks' = SortBlocks(blocks)
    /\ captions' = Captions(blocks')
    /\ result' = full_text(blocks')
    /\ pc' = "page_done"
    /\ UNCHANGED <<idx, text, is_tall, calls, outcome, boxVars, lineVars, batchVars>>

NextAlbum ==
    \/ FilterComponent \/ SortBoxes \/ SuppressBox \/ ReturnMerged
    \/ BeginRegions \/ RegionGeometry \/ Recognize \/ FilterBlock \/ FinishPage

SpecAlbum == InitAlbum /\ [][NextAlbum]_vars

\* the rectangle of the block a region becomes
RegionBox(b) == <<b[1], b[2], b[1] + b[3], b[2] + b[4]>>
\* the region b has become a block of the page
BecameBlock(b) == \E k \in 1..Len(blocks) : blocks[k].bbox = RegionBox(b)
\* height > 22% of the page height and width > 40% of the page width
TallRegion(b) == 100 * b[4] > 22 * page.h /\ 100 * b[3] > 40 * page.w
\* at least 80 letters and a letter fraction >= 0.30
DenseText(t) == CountAlpha(t) >= 80 /\ 100 * CountAlpha(t) >= 30 * Len(t)
\* a region has just been examined and its text recognized and line-filtered
RegionJudged == pc = "region" /\ idx > 1 /\ outcome # "area too large"

\* C8: the block of a tall region (height > 22% of the page height, width > 40%
\* of the page width) has at least 80 letters and a letter fraction >= 0.30;
\* the tall rule rejects only tall regions whose line-filtered text misses one
\* of the two, so a region that is not tall is never rejected by it.
TallRegionRule ==
    /\ \A i \in 1..Len(merged) : \A k \in 1..Len(blocks) :
          (TallRegion(merged[i]) /\ blocks[k].bbox = RegionBox(merged[i]))
              => DenseText(blocks[k].text)
    /\ RegionJudged =>
          /\ (TallRegion(merged[idx-1]) /\ ~DenseText(text)) => ~BecameBlock(merged[idx-1])
          /\ outcome = "tall region with sparse text"
                => (TallRegion(merged[idx-1]) /\ ~DenseText(text))

\* of two tall regions the first became a block and the second, with 80 letters
\* or more but too small a letter fraction, was rejected by the tall rule
TallRegionRuleWitness ==
    /\ pc = "region" /\ idx = 3
    /\ TallRegion(merged[1]) /\ TallRegion(merged[2])
    /\ BecameBlock(merged[1]) /\ ~BecameBlock(merged[2])
    /\ outcome = "tall region with sparse text"
    /\ CountAlpha(text) >= 80

\* fewer than 2 words of length >= 4 and fewer than 4 words of length >= 3
FewWords(t) == CountWords(t, 4) < 2 /\ CountWords(t, 3) < 4
\* length in [8,50], a word of length >= 3, an uppercase letter, symbol
\* fraction < 0.25
ValidShortBlock(t) ==
    /\ Len(t) >= 8 /\ Len(t) <= 50
    /\ CountWords(t, 3) >= 1
    /\ \E i \in 1..Len(t) : isupper(t[i])
    /\ 100 * CountSym(t) < 25 * Len(t)

\* C9: a region whose line-filtered text has fewer than 2 words of length >= 4
\* and fewer than 4 of length >= 3 is discarded, by the insufficient-words rule
\* when it has any text, unless the text is a valid short block; a text that
\* meets a word-count threshold or is a valid short block is never discarded by
\* that rule.
InsufficientWordsRule ==
    RegionJudged =>
        /\ (FewWords(text) /\ ~ValidShortBlock(text)) =>
              /\ ~BecameBlock(merged[idx-1])
              /\ text # <<>> => outcome = "insufficient words"
        /\ (~FewWords(text) \/ ValidShortBlock(text)) => outcome # "insufficient words"

\* a three-word text with a symbol fraction of 0.20 or more became a block as a
\* valid short block, and a three-word text of 51 characters with a capital was
\* discarded by the rule
InsufficientWordsRuleWitness ==
    /\ pc = "region" /\ idx = 3
    /\ Len(blocks) = 1
    /\ FewWords(blocks[1].text) /\ 100 * CountSym(blocks[1].text) >= 20 * Len(blocks[1].text)
    /\ outcome = "insufficient words"
    /\ Len(text) = 51 /\ CountWords(text, 3) = 3 /\ \E i \in 1..Len(text) : isupper(text[i])

\* the rectangle b covers more than 0.14 of the page
CoversTooMuch(b) == 100 * (b[3] * b[4]) > 14 * (page.w * page.h)

\* C10: on a region whose padded rectangle covers more than 0.14 of the page
\* the recognizer is never called and the region never becomes a block; the
\* recognizer is called only on the region under examination, after the area
\* check let it through.
GeometryShortCircuit ==
    /\ [](\A i \in 1..Len(merged) :
             CoversTooMuch(merged[i]) => (i \notin Range(calls) /\ ~BecameBlock(merged[i])))
    /\ [][/\ calls' # calls =>
                /\ pc = "ocr" /\ calls' = Append(calls, idx)
                /\ ~CoversTooMuch(merged[idx])
          /\ (pc' = "ocr" /\ pc # "ocr") =>
                /\ pc = "region" /\ idx' = idx
                /\ ~CoversTooMuch(merged[idx])
         ]_vars

\* a page of two regions is done: the one covering more than 0.14 of the page
\* was skipped, the other was recognized and became a block
GeometryShortCircuitWitness ==
    /\ pc = "page_done"
    /\ Len(merged) = 2
    /\ \E i \in 1..2 : CoversTooMuch(merged[i]) /\ calls = <<3 - i>>
    /\ Len(blocks) = 1

\* the text t passes every block-level check of a region that is tall or not
PassesBlockChecks(t, tall) ==
    /\ t # <<>>
    /\ ~FewWords(t) \/ ValidShortBlock(t)
    /\ tall => DenseText(t)
    /\ Len(t) >= 4 /\ CountAlpha(t) >= 4
    /\ 100 * CountAlpha(t) >= 12 * Len(t) /\ 100 * CountAlnum(t) >= 12 * Len(t)
    /\ CountLongWords(t) >= 1 \/ CountAlpha(t) < 18
    /\ ~TooManyShortLines(t)
\* bl holds the blocks of the list b2, each once
SameBlocks(bl, b2) ==
    /\ Len(bl) = Len(b2)
    /\ \A b \in Range(bl) \cup Range(b2) :
          Cardinality({k \in 1..Len(bl) : bl[k] = b})
              = Cardinality({k \in 1..Len(b2) : b2[k] = b})

\* C11: every block has a non-empty text and the padded rectangle of a
\* surviving candidate region, and no region has two blocks; a block appears
\* only as the region under examination is judged, with exactly the text
\* filter_text_lines returns on what the recognizer read in that region, and
\* only when that text passes every block-level check; blocks are otherwise
\* only reordered, when the page record is made.
TextBlockInvariant ==
    /\ [](/\ \A k \in 1..Len(blocks) :
                /\ blocks[k].text # <<>>
                /\ \E i \in 1..Len(merged) :
                      /\ blocks[k].bbox = RegionBox(merged[i])
                      /\ i \in Range(calls)
          /\ \A i \in 1..Len(merged) :
                Cardinality({k \in 1..Len(blocks) :
                                blocks[k].bbox = RegionBox(merged[i])}) <= 1
          /\ pc = "block" => (text \in OcrTexts /\ calls[Len(calls)] = idx))
    /\ [][blocks' # blocks =>
            \/ /\ pc = "block"
               /\ blocks' = Append(blocks, [bbox |-> RegionBox(merged[idx]),
                                            text |-> filter_text_lines(text)])
               /\ PassesBlockChecks(filter_text_lines(text), TallRegion(merged[idx]))
               /\ ~CoversTooMuch(merged[idx])
            \/ /\ pc = "region" /\ pc' = "page_done"
               /\ SameBlocks(blocks', blocks)
         ]_vars

\* the page record of two recognized regions is made: one became a block, the
\* other's text failed a block-level check
TextBlockInvariantWitness ==
    /\ pc = "page_done"
    /\ calls = <<1, 2>>
    /\ Len(blocks) = 1
    /\ outcome \notin {"accept", "no text after line filtering"}

\* the block a is above the block b, or level with it and not right of it
NotAfter(a, b) ==
    \/ a.bbox[2] < b.bbox[2]
    \/ (a.bbox[2] = b.bbox[2] /\ a.bbox[1] <= b.bbox[1])

\* C12: in the page record the blocks are in ascending order of (bbox top,
\* bbox left), in whatever order the regions were delivered and examined, they
\* are the blocks accepted in the region loop, and captions holds their texts in
\* the same order.
PageAssemblyOrder ==
    /\ [](pc = "page_done" =>
            /\ \A i \in 1..Len(blocks) : \A j \in (i+1)..Len(blocks) :
                  NotAfter(blocks[i], blocks[j])
            /\ Len(captions) = Len(blocks)
            /\ \A k \in 1..Len(blocks) : captions[k] = blocks[k].text)
    /\ [][pc' = "page_done" => SameBlocks(blocks', blocks)]_vars

\* the resolver delivered a lower region before a higher one, both became
\* blocks, and the page record lists the higher one first
PageAssemblyOrderWitness ==
    /\ pc = "page_done"
    /\ Len(merged) = 2 /\ merged[1][2] > merged[2][2]
    /\ Len(blocks) = 2
    /\ blocks[1].bbox = RegionBox(merged[2])
    /\ blocks[2].bbox = RegionBox(merged[1])
    /\ captions[1] # captions[2]

----------------------------------------------------------------------------
(* Batch run: process_albums_batch over the album directories, and          *)
(* rebuild_search_index over the artifacts it left                          *)

InitBatch ==
    /\ pc = "album"
    /\ album_dirs \in ContentDirs
    /\ llm_client \in BOOLEAN
    /\ album_i = 1
    /\ idx = 1
    /\ metadata = DefaultMetadata(<<>>)
    /\ album_records = <<>>
    /\ all_search_entries = <<>>
    /\ artifacts = [a \in 1..Len(album_dirs) |-> album_dirs[a].previous]
    /\ search_index = [exists |-> FALSE, content |-> <<>>]
    /\ IdleText /\ IdleLines /\ IdleBoxes /\ IdleAlbum

\* for album_dir in album_dirs: metadata = parse_album_metadata(album_dir), and
\* process_album up to its image loop
StartAlbum ==
    /\ pc = "album"
    /\ album_i <= Len(album_dirs)
    /\ LET album == album_dirs[album_i]
           md == parse_album_metadata(album.name, album.index_md)
       IN  IF md.raised
           THEN pc' = "metadata_crashed" /\ UNCHANGED <<metadata, album_records, idx>>
           ELSE /\ metadata' = md
                /\ album_records' = <<>>
                /\ idx' = 1
                /\ pc' = "images"
    /\ UNCHANGED <<album_dirs, llm_client, album_i, all_search_entries, artifacts,
                   search_index, textVars, lineVars, boxVars, albumVars>>

\* for p in images: one image, unreadable and skipped, or read, its regions
\* found, recognized and filtered, and its record appended
ProcessImage ==
    /\ pc = "images"
    /\ \E images \in {real_images(album_dirs[album_i])} :
          /\ idx <= Len(images)
          /\ IF ~images[idx].readable
             THEN idx' = idx + 1 /\ UNCHANGED <<pc, album_records>>
             ELSE \E made \in {page_record(album_dirs[album_i].name, images[idx],
                                           llm_client)} :
                      IF made.ok
                      THEN /\ album_records' = Append(album_records, made.record)
                           /\ idx' = idx + 1
                           /\ UNCHANGED pc
                      ELSE pc' = "crashed" /\ UNCHANGED <<idx, album_records>>
    /\ UNCHANGED <<album_dirs, llm_client, album_i, metadata, all_search_entries,
                   artifacts, search_index, textVars, lineVars, boxVars, albumVars>>

\* return all_records
ReturnRecords ==
    /\ pc = "images"
    /\ idx > Len(real_images(album_dirs[album_i]))
    /\ pc' = "save"
    /\ UNCHANGED <<idx, batchVars, textVars, lineVars, boxVars, albumVars>>

\* album_json_path.write_text(...): the file is opened for writing, which
\* creates or empties it
OpenArtifact ==
    /\ pc = "save"
    /\ artifacts' = [artifacts EXCEPT ![album_i] = [exists |-> TRUE, content |-> <<>>]]
    /\ pc' = "saving"
    /\ UNCHANGED <<idx, album_dirs, llm_client, album_i, metadata, album_records,
                   all_search_entries, search_index, textVars, lineVars, boxVars, albumVars>>

\* ... and the JSON text of album_data is written and the file closed
WriteArtifact ==
    /\ pc = "saving"
    /\ artifacts' = [artifacts EXCEPT ![album_i] =
          [exists |-> TRUE,
           content |-> <<AlbumData(album_dirs[album_i].name, metadata, album_records)>>]]
    /\ pc' = "index"
    /\ UNCHANGED <<idx, album_dirs, llm_client, album_i, metadata, album_records,
                   all_search_entries, search_index, textVars, lineVars, boxVars, albumVars>>

\* the album entry and the page entries of the album
IndexAlbum ==
    /\ pc = "index"
    /\ LET name == album_dirs[album_i].name
           album_slug == generate_album_slug(name)
       IN  all_search_entries' =
               Append(all_search_entries, AlbumEntry(name, metadata.title, album_slug))
                   \o PageEntries(name, metadata.title, album_slug, album_records)
    /\ album_i' = album_i + 1
    /\ pc' = "album"
    /\ UNCHANGED <<idx, album_dirs, llm_client, metadata, album_records, artifacts,
                   search_index, textVars, lineVars, boxVars, albumVars>>

\* search_index_path.write_text(...) after the last album
WriteIndex ==
    /\ pc = "album"
    /\ album_i > Len(album_dirs)
    /\ search_index' = [exists |-> TRUE, content |-> <<all_search_entries>>]
    /\ pc' = "batch_done"
    /\ UNCHANGED <<idx, album_dirs, llm_client, album_i, metadata, album_records,
                   all_search_entries, artifacts, textVars, lineVars, boxVars, albumVars>>

\* the run is interrupted or killed
Abort ==
    /\ pc \in {"album", "images", "save", "saving", "index"}
    /\ pc' = "aborted"
    /\ UNCHANGED <<idx, batchVars, textVars, lineVars, boxVars, albumVars>>

\* rebuild_search_index is started, on what a batch run or a part of one left
StartRebuild ==
    /\ \/ pc \in {"batch_done", "aborted", "crashed", "metadata_crashed"}
       \/ pc = "album" /\ album_i = 1
    /\ all_search_entries' = <<>>
    /\ album_i' = 1
    /\ pc' = "rebuild"
    /\ UNCHANGED <<idx, album_dirs, llm_client, metadata, album_records, artifacts,
                   search_index, textVars, lineVars, boxVars, albumVars>>

\* for album_dir in album_dirs, the directories with an ocr_captions.json:
\* json.load raises on an empty file, metadata.get on a front-matter that is
\* no mapping
RebuildAlbum ==
    /\ pc = "rebuild"
    /\ album_i <= Len(album_dirs)
    /\ LET album == album_dirs[album_i]
           title == rebuild_album_title(album.name, album.index_md)
           album_slug == rebuild_generate_album_slug(album.name)
       IN  IF ~artifacts[album_i].exists
           THEN album_i' = album_i + 1 /\ UNCHANGED <<pc, all_search_entries>>
           ELSE IF artifacts[album_i].content = <<>> \/ title.raised
           THEN pc' = "rebuild_crashed" /\ UNCHANGED <<album_i, all_search_entries>>
           ELSE /\ all_search_entries' =
                     Append(all_search_entries,
                            AlbumEntry(album.name, title.title, album_slug))
                         \o RebuiltPageEntries(album.name, title.title, album_slug,
                                               artifacts[album_i].content[1].pages)
                /\ album_i' = album_i + 1
                /\ UNCHANGED pc
    /\ UNCHANGED <<idx, album_dirs, llm_client, metadata, album_records, artifacts,
                   search_index, textVars, lineVars, boxVars, albumVars>>

\* output_path.write_text(...)
WriteRebuilt ==
    /\ pc = "rebuild"
    /\ album_i > Len(album_dirs)
    /\ search_index' = [exists |-> TRUE, content |-> <<all_search_entries>>]
    /\ pc' = "rebuilt"
    /\ UNCHANGED <<idx, album_dirs, llm_client, album_i, metadata, album_records,
                   all_search_entries, artifacts, textVars, lineVars, boxVars, albumVars>>

NextBatch ==
    \/ StartAlbum \/ ProcessImage \/ ReturnRecords \/ OpenArtifact \/ WriteArtifact
    \/ IndexAlbum \/ WriteIndex \/ Abort
    \/ StartRebuild \/ RebuildAlbum \/ WriteRebuilt

SpecBatch == InitBatch /\ [][NextBatch]_vars

----------------------------------------------------------------------------
(* Properties of the batch run                                              *)

\* the names of the files of an album that are images and can be read
ReadableNames(album) ==
    {album.files[k].filename : k \in
        {k \in 1..Len(album.files) :
            /\ is_real_image_file(album.files[k].filename)
            /\ album.files[k].readable}}

\* the names of the image files that sort before a name
NamesBefore(album, name) ==
    {album.files[k].filename : k \in
        {k \in 1..Len(album.files) :
            /\ is_real_image_file(album.files[k].filename)
            /\ StrLess(album.files[k].filename, name)}}

\* C13: One record per readable page.  While process_album runs, the records
\* are those of the readable images among the images already visited, one
\* each, in ascending filename order, a page without an accepted block
\* included with empty blocks; when it returns, every readable image of the
\* album has its record, and an unreadable image has none and ends nothing.
OneRecordPerReadablePage ==
    pc \in {"images", "save"} =>
        LET album == album_dirs[album_i]
            names == {album_records[k].filename : k \in 1..Len(album_records)}
        IN  /\ names \subseteq ReadableNames(album)
            /\ Len(album_records) = Cardinality(names)
            /\ \A i \in 1..Len(album_records) : \A j \in (i+1)..Len(album_records) :
                  StrLess(album_records[i].filename, album_records[j].filename)
            /\ \A n \in ReadableNames(album) :
                  n \in names <=> Cardinality(NamesBefore(album, n)) < idx - 1
            /\ \A k \in 1..Len(album_records) :
                  album_records[k].captions = Captions(album_records[k].blocks)
            /\ pc = "save" => names = ReadableNames(album)

\* process_album returned for an album whose first image cannot be read and
\* whose second is a page without a region: one record, with empty blocks
OneRecordPerReadablePageWitness ==
    /\ pc = "save"
    /\ album_i = 1
    /\ Len(album_records) = 1
    /\ album_records[1].blocks = <<>>
    /\ \E k \in 1..Len(album_dirs[1].files) :
          /\ is_real_image_file(album_dirs[1].files[k].filename)
          /\ ~album_dirs[1].files[k].readable
          /\ StrLess(album_dirs[1].files[k].filename, album_records[1].filename)

\* the positions of the entries of an album in a search index
EntriesOf(entries, name, type) ==
    {e \in 1..Len(entries) : entries[e].album = name /\ entries[e].type = type}

\* the zero-based rank of a filename among the page records of an album
FilenameRank(records, name) ==
    Cardinality({k \in 1..Len(records) : StrLess(records[k].filename, name)})

\* C14: Search-index ranks.  In a written search index, of the batch run or of
\* the rebuild, every entry is of an album directory, and every album in it has
\* exactly one album entry and one page entry for each page record of its
\* artifact; the image_index of a page entry is the rank of its filename among
\* the album's records, the indexes of an album are 0..n-1 without gap or
\* repeat, and its page entries are listed by ascending image_index.
SearchIndexRanks ==
    search_index.exists =>
        LET entries == search_index.content[1]
        IN  /\ \A e \in 1..Len(entries) :
                  \E a \in 1..Len(album_dirs) : entries[e].album = album_dirs[a].name
            /\ \A a \in 1..Len(album_dirs) :
                  LET name == album_dirs[a].name
                      pages == EntriesOf(entries, name, "page")
                      records == artifacts[a].content[1].pages
                  IN  EntriesOf(entries, name, "album") \cup pages # {} =>
                        /\ Cardinality(EntriesOf(entries, name, "album")) = 1
                        /\ Cardinality(pages) = Len(records)
                        /\ {entries[e].image_index : e \in pages} = 0..(Len(records) - 1)
                        /\ \A k \in 1..Len(records) :
                              Cardinality({e \in pages :
                                  entries[e].page_filename = records[k].filename}) = 1
                        /\ \A e \in pages :
                              entries[e].image_index =
                                  FilenameRank(records, entries[e].page_filename)
                        /\ \A e \in pages : \A f \in pages :
                              e < f => entries[e].image_index < entries[f].image_index

\* the index was rebuilt from the artifacts of a batch run and holds an album
\* of two pages, p1.jpg before p10.jpg, with image_index 0 and 1
SearchIndexRanksWitness ==
    /\ pc = "rebuilt"
    /\ search_index.content[1] = all_search_entries
    /\ \E e \in 1..Len(all_search_entries) : \E f \in 1..Len(all_search_entries) :
          /\ all_search_entries[e].type = "page" /\ all_search_entries[f].type = "page"
          /\ all_search_entries[e].album = FirstAlbumName
          /\ all_search_entries[f].album = FirstAlbumName
          /\ all_search_entries[e].page_filename = <<"p", "1", ".", "j", "p", "g">>
          /\ all_search_entries[f].page_filename = <<"p", "1", "0", ".", "j", "p", "g">>
          /\ all_search_entries[e].image_index = 0
          /\ all_search_entries[f].image_index = 1

----------------------------------------------------------------------------
(* Slug derivation: generate_album_slug of rebuild_search_index.py applied  *)
(* to an album folder name                                                  *)

\* the folder names: every name of at most MaxSlugLen characters of the
\* alphabet, and the names of test_slug_generation
MaxSlugLen == 5
SlugAlphabet == {"A", " ", "&", "(", "'", "."}
CourtingName == <<"1", "9", "3", "1", "-", "1", "9", "3", "9", " ", "c", "o", "u", "r", "t", "i", "n", "g", " ", "&", " ", "m", "a", "r", "r", "i", "a", "g", "e">>
CourtingSlug == <<"1", "9", "3", "1", "-", "1", "9", "3", "9", "-", "c", "o", "u", "r", "t", "i", "n", "g", "-", "-", "m", "a", "r", "r", "i", "a", "g", "e">>
SlugExamples == {
    CourtingName,
    <<"1", "9", "5", "6", " ", "C", "a", "l", "i", "f", ".", " ", "T", "r", "i", "p", " ", "(", "B", "k", ".", " ", "2", ")">>,
    <<"1", "9", "8", "2", "-", "1", "9", "8", "4", " ", "S", "a", "n", " ", "F", "r", "a", "n", "c", "i", "s", "c", "o", "[", "]", "U", "t", "a", "h">>,
    <<"1", "9", "7", "3", "-", "1", "9", "7", "4", " ", "J", "o", "h", "n", "&", "B", "e", "n", " ", "B", "o", "r", "n">>,
    <<"1", "9", "7", "6", "-", "1", "9", "7", "7", " ", "S", "a", "n", " ", "F", "r", "a", "n", "c", "i", "s", "c", "o", "_", "S", "p", "a", "i", "n">>,
    <<"1", "9", "6", "8", "-", "1", "9", "6", "9", " ", "L", "o", "u", "i", "s", "e", "'", "s", " ", "m", "a", "r", "r", "i", "a", "g", "e">>,
    <<"1", "9", "6", "9", " ", "-", " ", "2", "5", "t", "h", " ", "a", "n", "n", "i", "v", ".", " ", "T", "r", "i", "p", " ", "t", "o", " ", "E", "u", "r", "o", "p", "e">>,
    <<"{", "a", "}", " ", "U+2018", "b", "U+2019", " ", "U+201B", "c", "+", "1">>}
FolderNames == SeqsUpTo(SlugAlphabet, MaxSlugLen) \cup SlugExamples

InitSlug ==
    /\ pc = "slug"
    /\ text \in FolderNames
    /\ result = <<>>
    /\ idx = 0
    /\ IdleLines /\ IdleBoxes /\ IdleAlbum /\ IdleBatch

\* album_slug = generate_album_slug(album_dir.name)
MakeSlug ==
    /\ pc = "slug"
    /\ result' = rebuild_generate_album_slug(text)
    /\ pc' = "slugged"
    /\ UNCHANGED <<text, idx, lineVars, boxVars, albumVars, batchVars>>

NextSlug == MakeSlug

SpecSlug == InitSlug /\ [][NextSlug]_vars

Brackets == {"(", ")", "[", "]", "{", "}"}
Apostrophes == {"'", "U+2018", "U+2019", "U+201B"}

\* the slug derived in one pass, reading the name from character i on:
\* " & " gives "--", a bracket, an apostrophe or another "&" gives nothing, another
\* space gives "-", and any other character gives its lowercase
RECURSIVE DerivedSlugFrom(_, _)
DerivedSlugFrom(s, i) ==
    IF i > Len(s) THEN <<>>
    ELSE IF i + 2 <= Len(s) /\ SubSeq(s, i, i + 2) = <<" ", "&", " ">>
         THEN <<"-", "-">> \o DerivedSlugFrom(s, i + 3)
    ELSE IF s[i] \in Brackets \cup Apostrophes \cup {"&"}
         THEN DerivedSlugFrom(s, i + 1)
    ELSE IF s[i] = " " THEN <<"-">> \o DerivedSlugFrom(s, i + 1)
    ELSE <<LowerChar(s[i])>> \o DerivedSlugFrom(s, i + 1)

\* C15: Slug derivation.  For every folder name the slug of
\* rebuild_search_index.py is the lowercased name with " & " replaced by "--",
\* brackets, apostrophes and the remaining "&" removed, the remaining spaces
\* replaced by "-" and every other character kept in order; it holds no space,
\* bracket, apostrophe, ampersand or uppercase ASCII letter, and the slug of
\* "1931-1939 courting & marriage" is "1931-1939-courting--marriage".
SlugDerivation ==
    pc = "slugged" =>
        /\ result = DerivedSlugFrom(text, 1)
        /\ \A i \in 1..Len(result) :
              result[i] \notin {" ", "&"} \cup Brackets \cup Apostrophes \cup AsciiUpper
        /\ text = CourtingName => result = CourtingSlug

\* the slug of a name with " & & " in it, where the second "&" is not between
\* two spaces any more once the first " & " is replaced
SlugDerivationWitness ==
    /\ pc = "slugged"
    /\ text = <<" ", "&", " ", "&", " ">>
    /\ result = <<"-", "-", "-">>

\* C23: Gallery position.  In the search index process_albums_batch writes,
\* the image_index of a page entry is the rank of the page's file among all
\* image files of its album directory sorted by filename, unreadable ones
\* counted.
GalleryPosition ==
    pc = "batch_done" =>
        \A e \in 1..Len(search_index.content[1]) :
            LET entry == search_index.content[1][e]
            IN  entry.type = "page" =>
                    \A a \in 1..Len(album_dirs) :
                        album_dirs[a].name = entry.album =>
                            entry.image_index =
                                Cardinality(NamesBefore(album_dirs[a], entry.page_filename))

\* C24: Slug derivation is one transform across the scripts.  The
\* album_url_slug of every entry of a written search index is the slug both
\* process_albums_batch and rebuild_search_index derive from the album's
\* folder name.
OneSlugAcrossScripts ==
    search_index.exists =>
        \A e \in 1..Len(search_index.content[1]) :
            LET entry == search_index.content[1][e]
            IN  /\ entry.album_url_slug = generate_album_slug(entry.album)
                /\ entry.album_url_slug = rebuild_generate_album_slug(entry.album)

\* the file of an album with a given name
FileNamed(album, name) ==
    album.files[CHOOSE k \in 1..Len(album.files) : album.files[k].filename = name]

\* C16: Recognizer failure handling.  No exception of a recognizer leaves the
\* region loop, so a run with the model never ends in one; the record of a page whose
\* region the model failed on holds what Tesseract read there, and the record
\* of a page whose region both recognizers failed on is there with no block.
RecognizerFailureHandled ==
    /\ llm_client => pc # "crashed"
    /\ pc \in {"images", "save"} =>
          \A k \in 1..Len(album_records) :
              LET img == FileNamed(album_dirs[album_i], album_records[k].filename)
              IN  \A r \in 1..Len(img.crops) :
                      /\ (llm_client /\ ~img.crops[r].primary.ok
                                     /\ img.crops[r].secondary.ok) =>
                            album_records[k].captions =
                                <<filter_text_lines(ocr_crop(img.crops[r].secondary.text))>>
                      /\ ((llm_client => ~img.crops[r].primary.ok)
                              /\ ~img.crops[r].secondary.ok) =>
                            album_records[k].blocks = <<>>

----------------------------------------------------------------------------
(* Album metadata: parse_album_metadata of ocr_pages.py, and the title     *)
(* rebuild_search_index.py reads, applied to an index.md                    *)

\* the index.md files: none, or at most MaxChunks chunks; a front-matter is
\* empty, lines of a mapping, or lines of one other kind
MaxChunks == 4
Chunks == {Marker, TitleEntry, WeightEntry, ListItem, PlainScalar, Unbalanced}
HasFrontMatter(content) ==
    /\ content # <<>> /\ content[1] = Marker
    /\ \E i \in 2..Len(content) : content[i] = Marker
FrontMatter(content) == split_markers(content)[2]
IndexFiles ==
    {[exists |-> FALSE, content |-> <<>>]} \cup
    {[exists |-> TRUE, content |-> c] : c \in
        {c \in SeqsUpTo(Chunks, MaxChunks) :
            HasFrontMatter(c) =>
                \/ Range(FrontMatter(c)) \subseteq {TitleEntry, WeightEntry}
                \/ Cardinality(Range(FrontMatter(c))) = 1}}

InitMeta ==
    /\ pc = "meta"
    /\ album_dirs \in {<<[name |-> FirstAlbumName, index_md |-> ix,
                         previous |-> NoArtifact, files |-> <<>>]>> : ix \in IndexFiles}
    /\ llm_client = FALSE
    /\ album_i = 1
    /\ idx = 0
    /\ metadata = DefaultMetadata(<<>>)
    /\ album_records = <<>>
    /\ all_search_entries = <<>>
    /\ artifacts = <<NoArtifact>>
    /\ search_index = NoArtifact
    /\ IdleText /\ IdleLines /\ IdleBoxes /\ IdleAlbum

\* metadata = parse_album_metadata(album_dir) in process_albums_batch
ParseMetadata ==
    /\ pc = "meta"
    /\ \E md \in {parse_album_metadata(album_dirs[album_i].name,
                                       album_dirs[album_i].index_md)} :
          IF md.raised
          THEN pc' = "meta_raised" /\ UNCHANGED metadata
          ELSE pc' = "meta_done" /\ metadata' = md
    /\ UNCHANGED <<idx, album_dirs, llm_client, album_i, album_records,
                   all_search_entries, artifacts, search_index,
                   textVars, lineVars, boxVars, albumVars>>

\* metadata = parse_album_metadata(album_dir) and metadata.get("title",
\* album_dir.name) in rebuild_search_index
ReadTitle ==
    /\ pc = "meta"
    /\ \E t \in {rebuild_album_title(album_dirs[album_i].name,
                                     album_dirs[album_i].index_md)} :
          IF t.raised
          THEN pc' = "title_raised" /\ UNCHANGED result
          ELSE pc' = "title_done" /\ result' = t.title
    /\ UNCHANGED <<text, idx, batchVars, lineVars, boxVars, albumVars>>

NextMeta == ParseMetadata \/ ReadTitle

SpecMeta == InitMeta /\ [][NextMeta]_vars

\* index.md is there, opens with "---", has a second "---", and what is
\* between them is one or more lines of a mapping
UsableFrontMatter(index_md) ==
    /\ index_md.exists
    /\ HasFrontMatter(index_md.content)
    /\ FrontMatter(index_md.content) # <<>>
    /\ \A i \in 1..Len(FrontMatter(index_md.content)) :
          FrontMatter(index_md.content)[i] \in {TitleEntry, WeightEntry}

\* C17: Album metadata defaults.  Reading the metadata of an album never ends
\* the run, and an album whose index.md is missing, has no closed front-matter,
\* or has a front-matter that is unparsable, empty or not a mapping gets the
\* folder name as its title and the weight 0.
MetadataDefaults ==
    /\ pc \notin {"meta_raised", "title_raised"}
    /\ (pc = "meta_done" /\ ~UsableFrontMatter(album_dirs[1].index_md)) =>
          metadata.title = album_dirs[1].name /\ metadata.weight = 0
    /\ (pc = "title_done" /\ ~UsableFrontMatter(album_dirs[1].index_md)) =>
          result = album_dirs[1].name

\* C18: Artifact atomicity under abort.  When the run is aborted while an album
\* that has an artifact of an earlier run is processed or saved, the album's
\* ocr_captions.json is that earlier artifact, whole, or the new one, whole.
ArtifactAtomicUnderAbort ==
    (pc = "aborted" /\ album_i <= Len(album_dirs)
                    /\ album_dirs[album_i].previous.exists) =>
        \/ artifacts[album_i] = album_dirs[album_i].previous
        \/ artifacts[album_i] =
              [exists |-> TRUE,
               content |-> <<AlbumData(album_dirs[album_i].name, metadata, album_records)>>]

----------------------------------------------------------------------------
(* The detector on components at the limits of its filters                  *)

\* <<bw, bh, area>> on a page of 20000 pixels: areas of 15, 16, 7000 and 7001
\* pixels are fractions just below 0.0008, 0.0008, 0.35 and just above 0.35;
\* 23 by 20 is an aspect of 1.15 and 57 by 50 one of 1.14
LimitShapes == {<<5, 3, 15>>, <<8, 2, 16>>, <<150, 50, 7000>>, <<150, 50, 7001>>,
                <<23, 20, 460>>, <<57, 50, 2850>>, <<40, 10, 400>>}
LimitComponents ==
    {<<o[1], o[2], sh[1], sh[2], sh[3]>> : o \in {<<0, 0>>, <<20, 10>>}, sh \in LimitShapes}

InitLimits ==
    /\ pc = "components"
    /\ page \in PageSizes
    /\ stats \in SeqsUpTo(LimitComponents, MaxComponents)
    /\ boxes = <<>>
    /\ merged = <<>>
    /\ idx = 1
    /\ IdleText /\ IdleLines /\ IdleAlbum /\ IdleBatch

SpecLimits == InitLimits /\ [][NextBoxes]_vars

\* the area fraction of a component is below 0.0008 or above 0.35, or its
\* width is less than 1.15 times max(1, height)
OutsideLimits(pg, comp) ==
    \/ 10000 * comp[5] < 8 * (pg.w * pg.h)
    \/ 100 * comp[5] > 35 * (pg.w * pg.h)
    \/ 100 * comp[3] < 115 * (IF comp[4] < 1 THEN 1 ELSE comp[4])

\* C19: Detector filtering.  Of the components visited so far, one outside
\* the limits has contributed no candidate rectangle and every other one
\* exactly one, its padded box; and the detector's output holds only candidate
\* rectangles, so nothing of a component outside the limits.
DetectorFiltering ==
    LET visited == IF pc = "components" THEN idx - 1 ELSE Len(stats)
        within == {k \in 1..visited : ~OutsideLimits(page, stats[k])}
    IN  /\ Len(boxes) = Cardinality(within)
        /\ \A k \in within :
              Cardinality({i \in 1..Len(boxes) : boxes[i] = PadBox(page, stats[k])})
                  = Cardinality({l \in within :
                        PadBox(page, stats[l]) = PadBox(page, stats[k])})
        /\ \A j \in 1..Len(merged) : \E i \in 1..Len(boxes) : merged[j] = boxes[i]

\* the detector returned on a component of exactly 0.0008 of the page and one
\* of aspect 1.14: the first gave the only rectangle
DetectorFilteringWitness ==
    /\ pc = "boxes_done"
    /\ stats = <<<<0, 0, 8, 2, 16>>, <<20, 10, 57, 50, 2850>> >>
    /\ merged = <<PadBox(page, stats[1])>>

----------------------------------------------------------------------------
(* The detector on clusters of overlapping components                       *)

\* caption strips on the page of 200 by 100, padded by 1: the first two do not
\* touch, the third is larger and overlaps both with an IoU of 242/878, the
\* fourth has the area of the first and overlaps it, the fifth lies inside the
\* first
ClusterComponents ==
    {<<10, 10, 40, 10, 400>>, <<52, 10, 40, 10, 400>>, <<30, 11, 42, 12, 504>>,
     <<20, 10, 40, 10, 400>>, <<12, 11, 30, 8, 240>>}
MaxCluster == 3

InitCluster ==
    /\ pc = "components"
    /\ page \in PageSizes
    /\ stats \in SeqsUpTo(ClusterComponents, MaxCluster)
    /\ boxes = <<>>
    /\ merged = <<>>
    /\ idx = 1
    /\ IdleText /\ IdleLines /\ IdleAlbum /\ IdleBatch

SpecCluster == InitCluster /\ [][NextBoxes]_vars

\* the area two rectangles <<x, y, w, h>> share
SharedArea(a, b) ==
    LET across == Min(a[1] + a[3], b[1] + b[3]) - Max(a[1], b[1])
        down   == Min(a[2] + a[4], b[2] + b[4]) - Max(a[2], b[2])
    IN  IF across > 0 /\ down > 0 THEN across * down ELSE 0

\* IoU > 0.25
IoUOverQuarter(a, b) ==
    /\ SharedArea(a, b) > 0
    /\ 4 * SharedArea(a, b) > a[3] * a[4] + b[3] * b[4] - SharedArea(a, b)

\* C20: Greedy first-match merge.  The rectangles are taken in ascending (top,
\* left) order; one that no kept rectangle overlaps with IoU > 0.25 is appended
\* as it is; otherwise the slot of the first kept rectangle that does goes to the
\* larger of the two, to the kept one on equal area, and the rest of the kept
\* list stays as it was.  Every kept rectangle is one of the input rectangles,
\* and there are never more kept rectangles than rectangles taken.
GreedyFirstMatchMerge ==
    /\ [](pc \in {"suppress", "boxes_done"} =>
            /\ \A i \in 1..Len(boxes) : \A j \in (i+1)..Len(boxes) :
                  \/ boxes[i][2] < boxes[j][2]
                  \/ (boxes[i][2] = boxes[j][2] /\ boxes[i][1] <= boxes[j][1])
            /\ \A j \in 1..Len(merged) : \E i \in 1..(idx - 1) : merged[j] = boxes[i]
            /\ Len(merged) <= idx - 1
            /\ idx - 1 <= Len(boxes))
    /\ [][(pc = "suppress" /\ (merged' # merged \/ idx' # idx)) =>
            LET b == boxes[idx]
                hits == {j \in 1..Len(merged) : IoUOverQuarter(b, merged[j])}
            IN  /\ idx' = idx + 1
                /\ hits = {} => merged' = Append(merged, b)
                /\ hits # {} =>
                      \E j \in hits :
                          /\ \A l \in hits : j <= l
                          /\ Len(merged') = Len(merged)
                          /\ merged'[j] = IF b[3] * b[4] > merged[j][3] * merged[j][4]
                                          THEN b ELSE merged[j]
                          /\ \A l \in 1..Len(merged) : l # j => merged'[l] = merged[l]]_vars

\* two strips that do not touch are kept, and a larger third that overlaps
\* both takes the slot of the first and leaves the second
GreedyFirstMatchMergeWitness ==
    /\ pc = "boxes_done"
    /\ boxes = <<<<9, 9, 42, 12>>, <<51, 9, 42, 12>>, <<29, 10, 44, 14>> >>
    /\ IoUOverQuarter(boxes[3], boxes[1]) /\ IoUOverQuarter(boxes[3], boxes[2])
    /\ merged = <<<<29, 10, 44, 14>>, <<51, 9, 42, 12>> >>

----------------------------------------------------------------------------
(* One region: ocr_crop by the configured recognizer, then                  *)
(* filter_text_lines on what it returned                                    *)

\* what is read in the region: texts of at most MaxRegionTokens sentence
\* tokens, the same by either recognizer
MaxRegionTokens == 3
RegionReadings == TokenTexts(DupTokens, MaxRegionTokens)
RegionCrop(reading) == [primary |-> Reads(reading), secondary |-> Reads(reading)]

InitRegion ==
    /\ pc = "ocr_region"
    /\ llm_client \in BOOLEAN
    /\ album_dirs \in
          {<<[name |-> FirstAlbumName, index_md |-> PlainIndex, previous |-> NoArtifact,
              files |-> <<ImageFile(<<"p", "1", ".", "j", "p", "g">>,
                            [readable |-> TRUE, stats |-> <<Strip>>,
                             crops |-> <<RegionCrop(t)>>])>>]>> : t \in RegionReadings}
    /\ album_i = 1
    /\ idx = 0
    /\ metadata = DefaultMetadata(<<>>)
    /\ album_records = <<>>
    /\ all_search_entries = <<>>
    /\ artifacts = <<NoArtifact>>
    /\ search_index = NoArtifact
    /\ IdleText /\ IdleLines /\ IdleBoxes /\ IdleAlbum

\* text = ocr_crop(crop, llm_client=llm_client, ...)
RecognizeRegion ==
    /\ pc = "ocr_region"
    /\ \E got \in {ocr_crop_call(llm_client, album_dirs[1].files[1].crops[1])} :
          /\ got.ok
          /\ text' = got.text
    /\ pc' = "filter_start"
    /\ UNCHANGED <<idx, result, lineVars, boxVars, albumVars, batchVars>>

NextRegion == RecognizeRegion \/ StartFilter \/ FilterLine \/ ReturnKept

SpecRegion == InitRegion /\ [][NextRegion]_vars

\* the stripped lines of a text
LinesOf(s) == [k \in 1..Len(splitlines(s)) |-> strip(splitlines(s)[k])]

\* C21: The sentence-duplication check runs once per region, before the lines
\* are filtered, and only on the text of a generative recognizer: the lines the
\* line filter works on are those of the text after the check when the model
\* produced it, and those of the text as it was recognized, no sentence
\* dropped, when Tesseract alone produced it.
DuplicationCheckGated ==
    pc \in {"filter_lines", "filtered"} =>
        /\ llm_client => lines = LinesOf(detect_llm_duplication(text))
        /\ ~llm_client => lines = LinesOf(text)

----------------------------------------------------------------------------
(* The detector on components at the edges of the page                      *)

\* strips in the four corners of the page of 200 by 100, one across its whole
\* width, one away from every edge, and a single pixel at the right edge
EdgeComponents ==
    {<<0, 0, 40, 10, 400>>, <<160, 0, 40, 10, 400>>, <<0, 90, 40, 10, 400>>,
     <<160, 90, 40, 10, 400>>, <<0, 40, 200, 10, 2000>>, <<80, 45, 40, 10, 400>>,
     <<199, 50, 1, 1, 1>>}

InitEdges ==
    /\ pc = "components"
    /\ page \in PageSizes
    /\ stats \in SeqsUpTo(EdgeComponents, MaxComponents)
    /\ boxes = <<>>
    /\ merged = <<>>
    /\ idx = 1
    /\ IdleText /\ IdleLines /\ IdleAlbum /\ IdleBatch

SpecEdges == InitEdges /\ [][NextBoxes]_vars

\* rectangle r lies on the page, is not empty, and is the bounding box of
\* component c extended by 0 to pad pixels on each side
PaddedOnPage(pg, r, c, pad) ==
    /\ 0 <= r[1] /\ 0 <= r[2]
    /\ r[1] + r[3] <= pg.w /\ r[2] + r[4] <= pg.h
    /\ r[3] > 0 /\ r[4] > 0
    /\ r[1] <= c[1] /\ c[1] - r[1] <= pad
    /\ r[2] <= c[2] /\ c[2] - r[2] <= pad
    /\ c[1] + c[3] <= r[1] + r[3] /\ r[1] + r[3] - (c[1] + c[3]) <= pad
    /\ c[2] + c[4] <= r[2] + r[4] /\ r[2] + r[4] - (c[2] + c[4]) <= pad

\* C22: Padding and clamping.  Every candidate rectangle and every rectangle
\* the detector returns lies on the page, has a positive width and height, and
\* holds the bounding box of one of the components, extended by at most
\* int(0.01 * min(W, H)) pixels on each side.
PaddingAndClamping ==
    \A r \in Range(boxes) \cup Range(merged) :
        \E k \in 1..Len(stats) :
            PaddedOnPage(page, r, stats[k],
                         (IF page.w < page.h THEN page.w ELSE page.h) \div 100)

\* the detector returned on a strip in the lower right corner of the page: its
\* rectangle is padded towards the inside and clamped at the two edges
PaddingAndClampingWitness ==
    /\ pc = "boxes_done"
    /\ stats = <<<<160, 90, 40, 10, 400>> >>
    /\ merged = <<<<159, 89, 41, 11>> >>

====
